---- MODULE Spec2Model ----
(***************************************************************************)
(* A model of the seekme SDK's vector-search subsystem: the identifier     *)
(* validator (identifiers.py), the index configuration model               *)
(* (vector/index.py), the SQL vector store (vector/sql.py) and the driver  *)
(* contract it consumes (db/drivers/sql.py, db/drivers/seekdb.py).         *)
(*                                                                         *)
(* Python strings are sequences of one-character strings.  Values whose    *)
(* Python type may vary (option values, property values, filter keys and   *)
(* values) are records [t |-> <type tag>, v |-> <payload>].                *)
(***************************************************************************)
EXTENDS Integers, Sequences, FiniteSets, TLC

VARIABLES
    driver,     \* which Database the store was built on: "sql" or "seekdb"
    embedder,   \* SQLVectorStore._embedder: "none" or "bound"
    conn,       \* the driver holds a live connection (_conn is not None)
    exists,     \* engine: the collection table exists
    schema,     \* engine: the dimension the table was created with, 0 without a table
    working,    \* engine: rows as seen by the driver's connection (open transaction)
    committed,  \* engine: rows durably committed
    call,       \* the last public call: its operation and arguments
    err,        \* the error the last call raised, or NoError
    ret,        \* the value the last call returned
    log,        \* the driver calls made during the last call, in order
    config,     \* the VectorIndexConfig object under test, or NoConfig
    sqldb,      \* an SQLDatabase / SQLAlchemyDatabase and its engine's view of it
    process,    \* the process of the embedded engine: _OPENED_PATH, the engine,
                \* the file system and the SeekdbDatabase instances
    registry    \* the module state of registry.py: the three factory dicts

vars == <<driver, embedder, conn, exists, schema, working, committed, call, err, ret, log,
          config, sqldb, process, registry>>

\* the objects that the store's calls do not touch
others == <<config, sqldb, process, registry>>

\* the store, its driver and its engine
storeVars == <<driver, embedder, conn, exists, schema, working, committed, log>>
\* everything but the one object a call is made on
exceptConfig == <<storeVars, sqldb, process, registry>>
exceptSqldb == <<storeVars, config, process, registry>>
exceptProcess == <<storeVars, config, sqldb, registry>>
exceptRegistry == <<storeVars, config, sqldb, process>>

\* no VectorIndexConfig has been constructed
NoConfig == [name |-> <<>>]

\* a driver as __init__ leaves it: no connection, no transaction handle.
\* _tx is "none", or the state of the Transaction it refers to; live counts
\* the engine's connections opened by the driver and not closed, txs the
\* transactions begun on the connection and not ended.
NewSqlDatabase(cls) ==
    [cls |-> cls, _conn |-> FALSE, _tx |-> "none", live |-> 0, txs |-> 0]

\* _OPENED_PATH = None
NoPath == <<>>
\* a process in which seekdb.py was imported and nothing else happened
NoProcess == [_OPENED_PATH |-> NoPath]

\* registry.py as imported: three empty dicts, as entry lists; defaults not loaded
EmptyRegistry ==
    [_db_factories |-> <<>>, _vector_factories |-> <<>>, _embedder_factories |-> <<>>,
     _defaults_loaded |-> FALSE]

\* the objects outside the store, before anything was done with them
OthersIdle ==
    /\ config = NoConfig
    /\ sqldb = NewSqlDatabase("SQLDatabase")
    /\ process = NoProcess
    /\ registry = EmptyRegistry

(***************************************************************************)
(* Bounds of the model.                                                    *)
(***************************************************************************)
MaxBatch == 2      \* longest ids / vectors / metadatas list of an upsert
MaxFields == 2     \* longest return_fields list of a search
MaxWhere == 2      \* most entries of a where mapping
MaxTopK == 1       \* largest top_k
MaxProps == 2      \* most entries of an index properties mapping

(***************************************************************************)
(* Strings and tagged Python values.                                       *)
(***************************************************************************)
Lower == {"a", "b", "c", "d", "e", "f", "g", "h", "i", "j", "k", "l", "m", "n",
          "o", "p", "q", "r", "s", "t", "u", "v", "w", "x", "y", "z"}
Upper == {"A", "B", "C", "D", "E", "F", "G", "H", "I", "J", "K", "L", "M", "N",
          "O", "P", "Q", "R", "S", "T", "U", "V", "W", "X", "Y", "Z"}
Digit == {"0", "1", "2", "3", "4", "5", "6", "7", "8", "9"}

PyStr(s) == [t |-> "str", v |-> s]
PyInt(i) == [t |-> "int", v |-> i]
PyBool(b) == [t |-> "bool", v |-> b]
PyFloat(i) == [t |-> "float", v |-> i]
PyNone == [t |-> "none", v |-> 0]
\* an object json.dumps cannot encode (a set, a datetime, ...)
PyObject == [t |-> "object", v |-> 0]

NoError == "none"

\* str.lower(), on the characters of the model's alphabet
LowerChar(c) ==
    LET upper == <<"A", "B", "C", "D", "E", "F", "G", "H", "I", "J", "K", "L", "M", "N",
                   "O", "P", "Q", "R", "S", "T", "U", "V", "W", "X", "Y", "Z">>
        lower == <<"a", "b", "c", "d", "e", "f", "g", "h", "i", "j", "k", "l", "m", "n",
                   "o", "p", "q", "r", "s", "t", "u", "v", "w", "x", "y", "z">>
    IN  IF c \in Upper THEN lower[CHOOSE i \in 1..26 : upper[i] = c] ELSE c

ToLower(s) == [i \in 1..Len(s) |-> LowerChar(s[i])]

IsHeadChar(c) == c \in Lower \cup Upper \cup {"_"}
IsTailChar(c) == c \in Lower \cup Upper \cup Digit \cup {"_"}

\* ^[A-Za-z_][A-Za-z0-9_]*  over the first n characters of s
MatchesCore(s, n) ==
    /\ n >= 1
    /\ n <= Len(s)
    /\ IsHeadChar(s[1])
    /\ \A i \in 2..n : IsTailChar(s[i])

\* _IDENTIFIER_RE.match(value): Python's $ matches at the end of the string
\* and also just before a newline that ends the string.
is_identifier(s) ==
    \/ MatchesCore(s, Len(s))
    \/ (Len(s) >= 2 /\ s[Len(s)] = "\n" /\ MatchesCore(s, Len(s) - 1))

\* validate_identifier(value): the error it raises, or NoError
validate_identifier(s) ==
    IF is_identifier(s) THEN NoError ELSE "InvalidIdentifier"

\* validate_index_option(name, value)
validate_index_option(value) ==
    IF value.t # "str" THEN "InvalidIndexOption"
    ELSE IF ~is_identifier(value.v) THEN "InvalidIndexOption"
    ELSE IF value.v # ToLower(value.v) THEN "InvalidIndexOption"
    ELSE NoError

\* validate_index_property_name(value)
validate_index_property_name(value) ==
    IF value.t # "str" THEN "InvalidIndexPropertyName"
    ELSE IF ~is_identifier(value.v) THEN "InvalidIndexPropertyName"
    ELSE IF value.v # ToLower(value.v) THEN "InvalidIndexPropertyName"
    ELSE NoError

\* validate_index_property_value(name, value); bool is a subclass of int
validate_index_property_value(value) ==
    IF value.t \notin {"str", "int", "float", "bool"} THEN "InvalidIndexPropertyValue"
    ELSE IF value.t = "str" /\ ~is_identifier(value.v) THEN "InvalidIndexPropertyValue"
    ELSE NoError

(***************************************************************************)
(* JSON encoding (json.dumps) of the values the store serializes.          *)
(***************************************************************************)
PyList(items) == [t |-> "list", v |-> items]
\* a mapping, as the sequence of its <<key, value>> entries in insertion order
PyDict(entries) == [t |-> "dict", v |-> entries]

\* json.dumps raises TypeError on a value it has no encoder for
JsonScalarOk(x) == x.t \in {"str", "int", "float", "bool", "none"}

JsonSerializable(x) ==
    IF x.t = "dict"
    THEN \A i \in 1..Len(x.v) : x.v[i][1].t = "str" /\ JsonScalarOk(x.v[i][2])
    ELSE JsonScalarOk(x)

DigitText(i) ==
    CASE i = 0 -> "0" [] i = 1 -> "1" [] i = 2 -> "2" [] i = 3 -> "3" [] i = 4 -> "4"
      [] i = 5 -> "5" [] i = 6 -> "6" [] i = 7 -> "7" [] i = 8 -> "8" [] OTHER -> "9"

IntText(i) == IF i < 0 THEN <<"-", DigitText(-i)>> ELSE <<DigitText(i)>>

\* the escapes json.dumps writes inside a string
JsonChar(c) ==
    CASE c = "\"" -> <<"\\", "\"">>
      [] c = "\\" -> <<"\\", "\\">>
      [] c = "\n" -> <<"\\", "n">>
      [] OTHER -> <<c>>

RECURSIVE JsonChars(_, _)
JsonChars(s, i) == IF i > Len(s) THEN <<>> ELSE JsonChar(s[i]) \o JsonChars(s, i + 1)

\* json.dumps of a scalar, as the characters of its text
JsonScalar(x) ==
    CASE x.t = "str" -> <<"\"">> \o JsonChars(x.v, 1) \o <<"\"">>
      [] x.t = "int" -> IntText(x.v)
      [] x.t = "float" -> IntText(x.v) \o <<".", "0">>
      [] x.t = "bool" -> IF x.v THEN <<"t", "r", "u", "e">> ELSE <<"f", "a", "l", "s", "e">>
      [] OTHER -> <<"n", "u", "l", "l">>

RECURSIVE JsonEntries(_, _)
JsonEntries(entries, i) ==
    IF i > Len(entries) THEN <<>>
    ELSE (IF i > 1 THEN <<",", " ">> ELSE <<>>)
         \o JsonScalar(entries[i][1]) \o <<":", " ">> \o JsonScalar(entries[i][2])
         \o JsonEntries(entries, i + 1)

\* json.dumps(value) for a serializable value
JsonText(x) ==
    IF x.t = "dict" THEN <<"{">> \o JsonEntries(x.v, 1) \o <<"}">> ELSE JsonScalar(x)

\* _dump_metadata(value): [err, text]
_dump_metadata(value) ==
    IF JsonSerializable(value)
    THEN [err |-> NoError, text |-> JsonText(value)]
    ELSE [err |-> "MetadataSerializationFailed", text |-> <<>>]

RECURSIVE FloatList(_, _)
FloatList(vector, i) ==
    IF i > Len(vector) THEN <<>>
    ELSE (IF i > 1 THEN <<",">> ELSE <<>>)
         \o IntText(vector[i]) \o <<".", "0">> \o FloatList(vector, i + 1)

\* _vector_literal(vector): json.dumps([float(x) for x in vector], separators=(",", ":"))
_vector_literal(vector) == <<"[">> \o FloatList(vector, 1) \o <<"]">>

(***************************************************************************)
(* The backing engine and the Database driver the store calls.  A world W  *)
(* is the driver and engine state threaded through one public call:        *)
(* [conn, exists, schema, working, committed, log, err].                   *)
(***************************************************************************)
Ids == {<<"a">>, <<"b">>}
NoRow == [present |-> FALSE]
Row(embedding, metadata) == [present |-> TRUE, embedding |-> embedding, metadata |-> metadata]
EmptyTable == [i \in Ids |-> NoRow]
SqlNull == <<"N", "U", "L", "L">>

\* the table a name denotes in SQL text: trailing whitespace is not part of it
TableName(name) ==
    IF Len(name) >= 1 /\ name[Len(name)] = "\n" THEN SubSeq(name, 1, Len(name) - 1) ELSE name

Docs == <<"d", "o", "c", "s">>

World == [conn |-> conn, exists |-> exists, schema |-> schema, working |-> working,
          committed |-> committed, log |-> <<>>, err |-> NoError]

\* the error a driver raises when the engine rejects an execute
ExecuteError == IF driver = "sql" THEN "QueryError" ELSE "ExecutionFailed"
FetchError == IF driver = "sql" THEN "QueryError" ELSE "FetchFailed"
CommitError == IF driver = "sql" THEN "QueryError" ELSE "TransactionFailed"

\* whether the engine can run the statement at all
EngineAccepts(W, stmt) ==
    CASE stmt.kind \in {"create_table", "drop_table"} -> TableName(stmt.table) = Docs
      [] OTHER -> TableName(stmt.table) = Docs /\ W.exists

\* An engine whose update keeps the stored metadata when the new one is NULL.
EngineRows_keep_metadata(W, stmt) ==
    CASE stmt.kind = "insert" ->
           [W.working EXCEPT ![stmt.params.id] =
               IF @.present /\ stmt.params.metadata = <<"N", "U", "L", "L">>
               THEN [@ EXCEPT !.embedding = stmt.params.embedding]
               ELSE [present |-> TRUE, embedding |-> stmt.params.embedding,
                     metadata |-> stmt.params.metadata]]
      [] stmt.kind = "drop_table" -> [i \in {<<"a">>, <<"b">>} |-> [present |-> FALSE]]
      [] OTHER -> W.working

\* the rows of the connection's view after the statement
\* (INSERT ... ON DUPLICATE KEY UPDATE replaces the row of that id)
EngineRows(W, stmt) ==
    CASE stmt.kind = "insert" ->
           [W.working EXCEPT ![stmt.params.id] =
               Row(stmt.params.embedding, stmt.params.metadata)]
      [] stmt.kind = "drop_table" -> EmptyTable
      [] OTHER -> W.working

EngineExists(W, stmt) ==
    CASE stmt.kind = "create_table" -> TRUE
      [] stmt.kind = "drop_table" -> FALSE
      [] OTHER -> W.exists

\* the dimension of the table after the statement: CREATE TABLE IF NOT EXISTS
\* leaves an existing table as it is
EngineSchema(W, stmt) ==
    CASE stmt.kind = "create_table" -> IF W.exists THEN W.schema ELSE stmt.dimension
      [] stmt.kind = "drop_table" -> 0
      [] OTHER -> W.schema

\* SeekdbDatabase connects with autocommit=True: every statement is durable at
\* once.  SQLDatabase runs statements in the connection's open transaction;
\* DDL is not transactional.
AutoCommits(stmt) == driver = "seekdb" \/ stmt.kind \in {"create_table", "drop_table"}

\* Database.execute(sql, params); rejected: the engine refuses this statement
DbExecute(W, stmt, rejected) ==
    IF rejected \/ ~EngineAccepts(W, stmt)
    THEN [W EXCEPT !.conn = TRUE,
                   !.log = Append(@, [m |-> "execute", stmt |-> stmt, ok |-> FALSE]),
                   !.err = ExecuteError]
    ELSE [W EXCEPT !.conn = TRUE,
                   !.exists = EngineExists(W, stmt),
                   !.schema = EngineSchema(W, stmt),
                   !.working = EngineRows(W, stmt),
                   !.committed = IF AutoCommits(stmt) THEN EngineRows(W, stmt) ELSE @,
                   !.log = Append(@, [m |-> "execute", stmt |-> stmt, ok |-> TRUE])]

\* Database.commit()
DbCommit(W, rejected) ==
    IF rejected
    THEN [W EXCEPT !.conn = TRUE,
                   !.log = Append(@, [m |-> "commit", ok |-> FALSE]),
                   !.err = CommitError]
    ELSE [W EXCEPT !.conn = TRUE,
                   !.committed = W.working,
                   !.log = Append(@, [m |-> "commit", ok |-> TRUE])]

\* Database.fetch_all(sql, params): the rows are the engine's business
DbFetchAll(W, stmt, rejected) ==
    IF rejected \/ ~EngineAccepts(W, stmt)
    THEN [W EXCEPT !.conn = TRUE,
                   !.log = Append(@, [m |-> "fetch_all", stmt |-> stmt, ok |-> FALSE]),
                   !.err = FetchError]
    ELSE [W EXCEPT !.conn = TRUE,
                   !.log = Append(@, [m |-> "fetch_all", stmt |-> stmt, ok |-> TRUE])]

Raise(W, e) == [W EXCEPT !.err = e]

\* what a call leaves in ret: nothing yet, an exception, None, or a value
Pending == [kind |-> "pending"]
Raised == [kind |-> "raised"]
ReturnedNone == [kind |-> "none"]

\* the state after a public call that ran the world to W
Finish(W, c, r) ==
    /\ conn' = W.conn
    /\ exists' = W.exists
    /\ schema' = W.schema
    /\ working' = W.working
    /\ committed' = W.committed
    /\ log' = W.log
    /\ err' = W.err
    /\ call' = c
    /\ ret' = IF W.err = NoError THEN r ELSE Raised
    /\ UNCHANGED <<driver, embedder>>
    /\ UNCHANGED others

(***************************************************************************)
(* VectorIndexConfig (vector/index.py).                                    *)
(***************************************************************************)
L2 == <<"l", "2">>
K_m == <<"m">>
K_ef_construction == <<"e", "f", "_", "c", "o", "n", "s", "t", "r", "u", "c", "t", "i", "o", "n">>
K_ef_search == <<"e", "f", "_", "s", "e", "a", "r", "c", "h">>
K_nlist == <<"n", "l", "i", "s", "t">>
K_samples_per_nlist == <<"s", "a", "m", "p", "l", "e", "s", "_", "p", "e", "r", "_",
                         "n", "l", "i", "s", "t">>
T_hnsw == <<"h", "n", "s", "w">>
T_ivf_flat == <<"i", "v", "f", "_", "f", "l", "a", "t">>
T_ivf_sq8 == <<"i", "v", "f", "_", "s", "q", "8">>
T_ivf_pq == <<"i", "v", "f", "_", "p", "q">>

IndexTypes == {T_hnsw, T_ivf_flat, T_ivf_sq8, T_ivf_pq}

\* _INDEX_PARAM_RULES[index_type]["allowed"]
AllowedProps(index_type) ==
    CASE index_type = T_hnsw -> {K_m, K_ef_construction, K_ef_search}
      [] index_type = T_ivf_pq -> {K_m, K_nlist, K_samples_per_nlist}
      [] OTHER -> {K_nlist, K_samples_per_nlist}

\* Rules in which no type requires a property.
RequiredProps_none(index_type) == {}

\* _INDEX_PARAM_RULES[index_type]["required"]
RequiredProps(index_type) == IF index_type = T_ivf_pq THEN {K_m} ELSE {}

_INDEX_INT_PARAMS == {K_m, K_ef_construction, K_ef_search, K_nlist, K_samples_per_nlist}

\* the keys of a mapping given as its entries
DictKeys(entries) == {entries[i][1] : i \in 1..Len(entries)}

\* isinstance(value, int): bool is a subclass of int
IsInstanceInt(value) == value.t \in {"int", "bool"}
\* the integer a value compares as
IntOf(value) == IF value.t = "bool" THEN (IF value.v THEN 1 ELSE 0) ELSE value.v

\* _validate_index_type(index_type)
_validate_index_type(index_type) ==
    IF index_type.v \in IndexTypes THEN NoError ELSE "UnsupportedIndexOption"

\* the checks of _validate_index_properties on one entry, in the code's order
PropertyEntryError(allowed, key, value) ==
    IF ~(key.t = "str" /\ key.v \in allowed) THEN "UnsupportedIndexProperty"
    ELSE IF validate_index_property_name(key) # NoError
    THEN validate_index_property_name(key)
    ELSE IF validate_index_property_value(value) # NoError
    THEN validate_index_property_value(value)
    ELSE IF key.v \in _INDEX_INT_PARAMS /\ ~IsInstanceInt(value)
    THEN "InvalidIndexPropertyValue"
    ELSE IF key.v \in _INDEX_INT_PARAMS /\ IsInstanceInt(value) /\ IntOf(value) <= 0
    THEN "InvalidIndexPropertyValue"
    ELSE NoError

\* the loop over properties.items(): the first entry that fails decides
RECURSIVE PropertyLoop(_, _, _)
PropertyLoop(allowed, entries, i) ==
    IF i > Len(entries) THEN NoError
    ELSE IF PropertyEntryError(allowed, entries[i][1], entries[i][2]) # NoError
    THEN PropertyEntryError(allowed, entries[i][1], entries[i][2])
    ELSE PropertyLoop(allowed, entries, i + 1)

\* _validate_index_properties(index_type, properties)
_validate_index_properties(index_type, properties) ==
    IF properties.t = "none"
    THEN (IF RequiredProps(index_type) # {} THEN "MissingIndexProperty" ELSE NoError)
    ELSE IF \E key \in RequiredProps(index_type) : PyStr(key) \notin DictKeys(properties.v)
    THEN "MissingIndexProperty"
    ELSE PropertyLoop(AllowedProps(index_type), properties.v, 1)

\* VectorIndexConfig.__post_init__: the error of constructing the object
PostInit(name, distance, index_type, lib, properties) ==
    IF validate_identifier(name) # NoError THEN validate_identifier(name)
    ELSE IF validate_index_option(distance) # NoError THEN validate_index_option(distance)
    ELSE IF validate_index_option(index_type) # NoError
    THEN validate_index_option(index_type)
    ELSE IF validate_index_option(lib) # NoError THEN validate_index_option(lib)
    ELSE IF _validate_index_type(index_type) # NoError THEN _validate_index_type(index_type)
    ELSE _validate_index_properties(index_type.v, properties)

\* str(value) of a property value that is not a string
StrOf(value) ==
    CASE value.t = "bool" -> IF value.v THEN <<"T", "r", "u", "e">>
                             ELSE <<"F", "a", "l", "s", "e">>
      [] value.t = "float" -> IntText(value.v) \o <<".", "0">>
      [] OTHER -> IntText(value.v)

\* _render_index_properties(properties): one text per entry, in insertion order
_render_index_properties(properties) ==
    IF properties.t = "none" THEN <<>>
    ELSE [i \in 1..Len(properties.v) |->
            IF properties.v[i][2].t = "str"
            THEN properties.v[i][1].v \o <<"=", "'">> \o properties.v[i][2].v \o <<"'">>
            ELSE properties.v[i][1].v \o <<"=">> \o StrOf(properties.v[i][2])]

\* VectorIndexConfig._render_params(): the parts that ", ".join puts together
_render_params(index) ==
    << <<"DISTANCE=">> \o index.distance.v,
       <<"TYPE=">> \o index.index_type.v,
       <<"LIB=">> \o index.lib.v >>
    \o _render_index_properties(index.properties)

\* VectorIndexConfig.render_create_sql(collection, column): [err, stmt]
render_create_sql(index, collection, column) ==
    IF validate_identifier(collection) # NoError
    THEN [err |-> validate_identifier(collection), stmt |-> <<>>]
    ELSE IF validate_identifier(column) # NoError
    THEN [err |-> validate_identifier(column), stmt |-> <<>>]
    ELSE [err |-> NoError,
          stmt |-> [kind |-> "create_index", name |-> index.name, table |-> collection,
                    column |-> column, with |-> _render_params(index)]]

(***************************************************************************)
(* SQLVectorStore: collection and index lifecycle, upsert.                 *)
(***************************************************************************)
\* _create_collection_sql(name, dimension)
_create_collection_sql(name, dimension) ==
    [kind |-> "create_table", table |-> name, dimension |-> dimension]

\* SQLVectorStore.create_collection(name, dimension)
create_collection(W, name, dimension, rejectAt) ==
    IF validate_identifier(name) # NoError THEN Raise(W, validate_identifier(name))
    ELSE IF dimension <= 0 THEN Raise(W, "DimensionMustBePositive")
    ELSE LET W1 == DbExecute(W, _create_collection_sql(name, dimension), rejectAt = 1)
         IN  IF W1.err # NoError THEN W1 ELSE DbCommit(W1, rejectAt = 2)

\* A delete_collection that issues DROP TABLE without IF EXISTS.
delete_collection_strict(W, name, rejectAt) ==
    IF validate_identifier(name) # NoError THEN Raise(W, validate_identifier(name))
    ELSE LET W1 == DbExecute(W, [kind |-> "drop_table_strict", table |-> name],
                             rejectAt = 1)
         IN  IF W1.err # NoError THEN W1 ELSE DbCommit(W1, rejectAt = 2)

\* SQLVectorStore.delete_collection(name)
delete_collection(W, name, rejectAt) ==
    IF validate_identifier(name) # NoError THEN Raise(W, validate_identifier(name))
    ELSE LET W1 == DbExecute(W, [kind |-> "drop_table", table |-> name], rejectAt = 1)
         IN  IF W1.err # NoError THEN W1 ELSE DbCommit(W1, rejectAt = 2)

\* SQLVectorStore.create_vector_index(collection, index)
create_vector_index(W, collection, index, rejectAt) ==
    IF validate_identifier(collection) # NoError
    THEN Raise(W, validate_identifier(collection))
    ELSE LET rendered == render_create_sql(index, collection, <<"e", "m", "b", "e", "d", "d", "i", "n", "g">>)
         IN  IF rendered.err # NoError THEN Raise(W, rendered.err)
             ELSE LET W1 == DbExecute(W, rendered.stmt, rejectAt = 1)
                  IN  IF W1.err # NoError THEN W1 ELSE DbCommit(W1, rejectAt = 2)

\* SQLVectorStore.delete_vector_index(collection, name)
delete_vector_index(W, collection, name, rejectAt) ==
    IF validate_identifier(collection) # NoError
    THEN Raise(W, validate_identifier(collection))
    ELSE IF validate_identifier(name) # NoError THEN Raise(W, validate_identifier(name))
    ELSE LET W1 == DbExecute(W, [kind |-> "drop_index", name |-> name,
                                 table |-> collection], rejectAt = 1)
         IN  IF W1.err # NoError THEN W1 ELSE DbCommit(W1, rejectAt = 2)

\* the INSERT ... ON DUPLICATE KEY UPDATE statement of one row
InsertStmt(collection, idx, vector, metadata) ==
    [kind |-> "insert", table |-> collection,
     params |-> [id |-> idx, embedding |-> _vector_literal(vector), metadata |-> metadata]]

\* The loop of upsert from `position` on: a row's metadata is serialized when
\* its turn comes, after the statements of the rows before it were executed.
RECURSIVE UpsertRows(_, _, _, _, _, _, _)
UpsertRows(W, collection, ids, vectors, metadatas, position, rejectAt) ==
    IF position > Len(ids) THEN W
    ELSE LET dumped == IF metadatas.t = "none"
                       THEN [err |-> NoError, text |-> SqlNull]
                       ELSE _dump_metadata(metadatas.v[position])
         IN  IF dumped.err # NoError THEN Raise(W, dumped.err)
             ELSE LET W1 == DbExecute(W, InsertStmt(collection, ids[position],
                                          vectors[position], dumped.text),
                                      rejectAt = position)
                  IN  IF W1.err # NoError THEN W1
                      ELSE UpsertRows(W1, collection, ids, vectors, metadatas,
                                      position + 1, rejectAt)

Min(a, b) == IF a <= b THEN a ELSE b

\* An upsert that does not compare len(ids) with len(vectors): zip() pairs the
\* two lists up to the shorter one.
upsert_zip_truncates(W, collection, ids, vectors, metadatas, rejectAt) ==
    IF validate_identifier(collection) # NoError
    THEN Raise(W, validate_identifier(collection))
    ELSE IF metadatas.t # "none" /\ Len(metadatas.v) # Len(ids)
    THEN Raise(W, "MetadatasMismatch")
    ELSE LET n == Min(Len(ids), Len(vectors))
             W1 == UpsertRows(W, collection, SubSeq(ids, 1, n), SubSeq(vectors, 1, n),
                              metadatas, 1, rejectAt)
         IN  IF W1.err # NoError THEN W1 ELSE DbCommit(W1, rejectAt = n + 1)

\* SQLVectorStore.upsert(collection, ids, vectors, metadatas)
upsert(W, collection, ids, vectors, metadatas, rejectAt) ==
    IF validate_identifier(collection) # NoError
    THEN Raise(W, validate_identifier(collection))
    ELSE IF Len(ids) # Len(vectors) THEN Raise(W, "IdsVectorsMismatch")
    ELSE IF metadatas.t # "none" /\ Len(metadatas.v) # Len(ids)
    THEN Raise(W, "MetadatasMismatch")
    ELSE LET W1 == UpsertRows(W, collection, ids, vectors, metadatas, 1, rejectAt)
         IN  IF W1.err # NoError THEN W1 ELSE DbCommit(W1, rejectAt = Len(ids) + 1)

(***************************************************************************)
(* SQLVectorStore.search and its helpers.                                  *)
(***************************************************************************)
Cosine == <<"c", "o", "s", "i", "n", "e">>
InnerProduct == <<"i", "n", "n", "e", "r", "_", "p", "r", "o", "d", "u", "c", "t">>
L2Distance == L2 \o <<"_", "d", "i", "s", "t", "a", "n", "c", "e">>
CosineDistance == Cosine \o <<"_", "d", "i", "s", "t", "a", "n", "c", "e">>

\* the keys of _DISTANCE_FUNCTIONS and of _DISTANCE_ALIASES
DistanceNames == {L2, Cosine, InnerProduct}
DistanceFunctionNames == {L2Distance, CosineDistance, InnerProduct}

\* _DISTANCE_FUNCTIONS[name]
_DISTANCE_FUNCTIONS(name) ==
    CASE name = L2 -> L2Distance
      [] name = Cosine -> CosineDistance
      [] OTHER -> InnerProduct

\* _DISTANCE_ALIASES[func]: the dict comprehension keeps the last name of a function
_DISTANCE_ALIASES(func) ==
    CASE func = L2Distance -> L2
      [] func = CosineDistance -> Cosine
      [] OTHER -> InnerProduct

\* _normalize_distance_name(distance): [err, value]
_normalize_distance_name(distance) ==
    IF validate_index_option(distance) # NoError
    THEN [err |-> validate_index_option(distance), value |-> <<>>]
    ELSE IF distance.v \in DistanceNames THEN [err |-> NoError, value |-> distance.v]
    ELSE IF distance.v \in DistanceFunctionNames
    THEN [err |-> NoError, value |-> _DISTANCE_ALIASES(distance.v)]
    ELSE [err |-> NoError, value |-> distance.v]

\* _normalize_distance_function(distance): [err, value]
_normalize_distance_function(distance) ==
    IF validate_index_option(distance) # NoError
    THEN [err |-> validate_index_option(distance), value |-> <<>>]
    ELSE IF distance.v \in DistanceNames
    THEN [err |-> NoError, value |-> _DISTANCE_FUNCTIONS(distance.v)]
    ELSE IF distance.v \in DistanceFunctionNames
    THEN [err |-> NoError, value |-> distance.v]
    ELSE [err |-> NoError, value |-> distance.v]

\* _resolve_distance(distance): [err, name, func]
_resolve_distance(distance) ==
    IF distance.t = "none" THEN [err |-> "DistanceRequired", name |-> <<>>, func |-> <<>>]
    ELSE IF _normalize_distance_name(distance).err # NoError
    THEN [err |-> _normalize_distance_name(distance).err, name |-> <<>>, func |-> <<>>]
    ELSE IF _normalize_distance_function(distance).err # NoError
    THEN [err |-> _normalize_distance_function(distance).err, name |-> <<>>, func |-> <<>>]
    ELSE [err |-> NoError, name |-> _normalize_distance_name(distance).value,
          func |-> _normalize_distance_function(distance).value]

F_id == <<"i", "d">>
F_metadata == <<"m", "e", "t", "a", "d", "a", "t", "a">>

\* the loop of _select_fields over return_fields[i..]: [err, fields]
RECURSIVE SelectLoop(_, _, _)
SelectLoop(return_fields, i, fields) ==
    IF i > Len(return_fields) THEN [err |-> NoError, fields |-> fields]
    ELSE IF validate_identifier(return_fields[i]) # NoError
    THEN [err |-> validate_identifier(return_fields[i]), fields |-> <<>>]
    ELSE IF \E j \in 1..Len(fields) : fields[j] = return_fields[i]
    THEN SelectLoop(return_fields, i + 1, fields)
    ELSE SelectLoop(return_fields, i + 1, Append(fields, return_fields[i]))

\* A _select_fields that adds the metadata column to the given fields too.
_select_fields_with_metadata(return_fields, include_metadata) ==
    IF return_fields.t = "none"
    THEN [err |-> NoError,
          fields |-> IF include_metadata THEN <<F_id, F_metadata>> ELSE <<F_id>>]
    ELSE LET r == SelectLoop(return_fields.v, 1, <<>>)
         IN  IF r.err # NoError THEN r
             ELSE IF r.fields = <<>> THEN [err |-> "ReturnFieldsEmpty", fields |-> <<>>]
             ELSE IF include_metadata /\ ~\E j \in 1..Len(r.fields) : r.fields[j] = F_metadata
             THEN [err |-> NoError, fields |-> Append(r.fields, F_metadata)]
             ELSE r

\* _select_fields(return_fields, include_metadata): [err, fields]
_select_fields(return_fields, include_metadata) ==
    IF return_fields.t = "none"
    THEN [err |-> NoError,
          fields |-> IF include_metadata THEN <<F_id, F_metadata>> ELSE <<F_id>>]
    ELSE LET r == SelectLoop(return_fields.v, 1, <<>>)
         IN  IF r.err # NoError THEN r
             ELSE IF r.fields = <<>> THEN [err |-> "ReturnFieldsEmpty", fields |-> <<>>]
             ELSE r

\* A filter key check that lets every key through.
_normalize_filter_key_any(key) == NoError

\* _normalize_filter_key(key): the error it raises, or NoError
_normalize_filter_key(key) ==
    IF key.t # "str" \/ key.v = <<>> THEN "InvalidFilterKey" ELSE NoError

\* _json_path(key)
_json_path(key) == <<"$", ".">> \o JsonScalar(key)

\* _json_filter_value(name, value): [err, text]
_json_filter_value(value) ==
    IF JsonSerializable(value)
    THEN [err |-> NoError, text |-> JsonText(value)]
    ELSE [err |-> "InvalidFilterValue", text |-> <<>>]

\* A placeholder name without the index.
ParamName_unindexed(prefix, index) == <<prefix>>

\* the name of a placeholder: f"w{index}", f"p{index}"
ParamName(prefix, index) == <<prefix>> \o IntText(index)

\* The loop of _build_where_clause over the entries from i on (index i - 1):
\* [err, clauses, params], params as <<name, value>> entries in insertion order.
RECURSIVE WhereLoop(_, _, _, _)
WhereLoop(entries, i, clauses, params) ==
    IF i > Len(entries) THEN [err |-> NoError, clauses |-> clauses, params |-> params]
    ELSE LET key == entries[i][1]
             value == entries[i][2]
             w == ParamName("w", i - 1)
             pp == ParamName("p", i - 1)
         IN  IF key = PyStr(F_id)
             THEN WhereLoop(entries, i + 1,
                            Append(clauses, <<"id = :">> \o w),
                            Append(params, <<w, value>>))
             ELSE IF _normalize_filter_key(key) # NoError
             THEN [err |-> _normalize_filter_key(key), clauses |-> <<>>, params |-> <<>>]
             ELSE IF value.t = "none"
             THEN WhereLoop(entries, i + 1,
                            Append(clauses, <<"JSON_EXTRACT(metadata, :">> \o pp
                                            \o <<") IS NULL">>),
                            Append(params, <<pp, PyStr(_json_path(key))>>))
             ELSE IF _json_filter_value(value).err # NoError
             THEN [err |-> _json_filter_value(value).err, clauses |-> <<>>,
                   params |-> <<>>]
             ELSE WhereLoop(entries, i + 1,
                            Append(clauses, <<"JSON_EXTRACT(metadata, :">> \o pp
                                            \o <<") = CAST(:">> \o w \o <<" AS JSON)">>),
                            params \o << <<pp, PyStr(_json_path(key))>>,
                                         <<w, PyStr(_json_filter_value(value).text)>> >>)

\* _build_where_clause(where): [err, clauses, params]; no clause, no WHERE
_build_where_clause(where) ==
    IF where.t = "none" \/ where.v = <<>>
    THEN [err |-> NoError, clauses |-> <<>>, params |-> <<>>]
    ELSE WhereLoop(where.v, 1, <<>>, <<>>)

\* An _embed_text that takes the last of the returned vectors.
_embed_text_last(W, query, embedded) ==
    IF embedder = "none" THEN [W |-> Raise(W, "EmbeddingNotConfigured"), vector |-> <<>>]
    ELSE LET W1 == [W EXCEPT !.log = Append(@, [m |-> "embed", texts |-> <<query.v>>,
                                                 returned |-> embedded, ok |-> TRUE])]
         IN  IF embedded = <<>> THEN [W |-> Raise(W1, "EmbeddingEmpty"), vector |-> <<>>]
             ELSE [W |-> W1, vector |-> embedded[Len(embedded)]]

\* SQLVectorStore._embed_text(query) in world W; embedded: what the embedder
\* returns for the one text.  [W, vector]
_embed_text(W, query, embedded) ==
    IF embedder = "none" THEN [W |-> Raise(W, "EmbeddingNotConfigured"), vector |-> <<>>]
    ELSE LET W1 == [W EXCEPT !.log = Append(@, [m |-> "embed", texts |-> <<query.v>>,
                                                 returned |-> embedded, ok |-> TRUE])]
         IN  IF embedded = <<>> THEN [W |-> Raise(W1, "EmbeddingEmpty"), vector |-> <<>>]
             ELSE [W |-> W1, vector |-> embedded[1]]

\* SQLVectorStore._resolve_query(query)
_resolve_query(W, query, embedded) ==
    IF query.t = "str" THEN _embed_text(W, query, embedded)
    ELSE [W |-> W, vector |-> query.v]

DistanceExpr(func) == func \o <<"(embedding, :query)">>

\* A SELECT statement with the limit written into its text.
SelectStmt_inline_limit(c, vector, fields, func, built) ==
    [kind |-> "select",
     select |-> IF c.include_distance
                THEN Append(fields, DistanceExpr(func) \o <<" AS _distance">>)
                ELSE fields,
     table |-> c.collection,
     where |-> built.clauses,
     order_by |-> IF c.include_distance THEN <<"_distance">> ELSE DistanceExpr(func),
     direction |-> "ASC",
     limit |-> IntText(c.top_k),
     params |-> << <<<<"query">>, PyStr(_vector_literal(vector))>>,
                   <<<<"top_k">>, PyInt(c.top_k)>> >> \o built.params]

\* A SELECT statement that orders descending.
SelectStmt_descending(c, vector, fields, func, built) ==
    [kind |-> "select",
     select |-> IF c.include_distance
                THEN Append(fields, DistanceExpr(func) \o <<" AS _distance">>)
                ELSE fields,
     table |-> c.collection,
     where |-> built.clauses,
     order_by |-> IF c.include_distance THEN <<"_distance">> ELSE DistanceExpr(func),
     direction |-> "DESC",
     limit |-> <<":top_k">>,
     params |-> << <<<<"query">>, PyStr(_vector_literal(vector))>>,
                   <<<<"top_k">>, PyInt(c.top_k)>> >> \o built.params]

\* the SELECT statement search builds and its parameters
SelectStmt(c, vector, fields, func, built) ==
    [kind |-> "select",
     select |-> IF c.include_distance
                THEN Append(fields, DistanceExpr(func) \o <<" AS _distance">>)
                ELSE fields,
     table |-> c.collection,
     where |-> built.clauses,
     order_by |-> IF c.include_distance THEN <<"_distance">> ELSE DistanceExpr(func),
     direction |-> "ASC",
     limit |-> <<":top_k">>,
     params |-> << <<<<"query">>, PyStr(_vector_literal(vector))>>,
                   <<<<"top_k">>, PyInt(c.top_k)>> >> \o built.params]

EmptyRows == [kind |-> "rows", from |-> "store", stmt |-> <<>>]
FetchedRows(stmt) == [kind |-> "rows", from |-> "driver", stmt |-> stmt]

\* search past the top_k check: resolve, build, fetch
SearchStatement(W, c, embedded, rejected) ==
    LET q == _resolve_query(W, c.query, embedded)
        sel == _select_fields(c.return_fields, c.include_metadata)
        dist == _resolve_distance(c.distance)
        built == _build_where_clause(c.where)
    IN  IF q.W.err # NoError THEN [W |-> q.W, ret |-> Raised]
        ELSE IF sel.err # NoError THEN [W |-> Raise(q.W, sel.err), ret |-> Raised]
        ELSE IF dist.err # NoError THEN [W |-> Raise(q.W, dist.err), ret |-> Raised]
        ELSE IF built.err # NoError THEN [W |-> Raise(q.W, built.err), ret |-> Raised]
        ELSE LET stmt == SelectStmt(c, q.vector, sel.fields, dist.func, built)
             IN  [W |-> DbFetchAll(q.W, stmt, rejected), ret |-> FetchedRows(stmt)]

\* A search that returns early only for a negative top_k.
search_negative_top_k(W, c, embedded, rejected) ==
    IF validate_identifier(c.collection) # NoError
    THEN [W |-> Raise(W, validate_identifier(c.collection)), ret |-> Raised]
    ELSE IF c.top_k < 0 THEN [W |-> W, ret |-> EmptyRows]
    ELSE SearchStatement(W, c, embedded, rejected)

\* SQLVectorStore.search(...), c holding its arguments: [W, ret]
search(W, c, embedded, rejected) ==
    IF validate_identifier(c.collection) # NoError
    THEN [W |-> Raise(W, validate_identifier(c.collection)), ret |-> Raised]
    ELSE IF c.top_k <= 0 THEN [W |-> W, ret |-> EmptyRows]
    ELSE SearchStatement(W, c, embedded, rejected)

(***************************************************************************)
(* Inputs of the store's operations.                                       *)
(***************************************************************************)
BadName == <<"b", "a", "d", "-", "n", "a", "m", "e">>
\* collection names: the table, the same with a trailing newline, malformed ones
CollectionNames == {Docs, Docs \o <<"\n">>, BadName, <<>>}
IndexNames == {<<"i", "d", "x">>, <<"1", "x">>}
Dimensions == {-1, 0, 3}

Vsag == <<"v", "s", "a", "g">>
Bogus == <<"b", "o", "g", "u", "s">>
IdxVec == <<"i", "d", "x", "_", "v", "e", "c">>

\* a VectorIndexConfig object
IndexObject(name, distance, index_type, lib, properties) ==
    [name |-> name, distance |-> distance, index_type |-> index_type, lib |-> lib,
     properties |-> properties]

\* property keys and values tried: allowed and unknown keys, a key that is not a
\* string; positive, zero and negative integers, a float, a string, booleans
PropKeys == {PyStr(K_m), PyStr(K_nlist), PyStr(K_ef_search), PyStr(Bogus), PyInt(5)}
PropValues == {PyInt(4), PyInt(0), PyInt(-1), PyFloat(2), PyStr(<<"x">>),
               PyBool(TRUE), PyBool(FALSE)}
PropEntries == {<<k, v>> : k \in PropKeys, v \in PropValues}

\* the mappings of n entries, as entry lists with distinct keys
DictsOfSize(n) ==
    {PyDict(e) : e \in {f \in [1..n -> PropEntries] :
                           \A i, j \in 1..n : i # j => f[i][1] # f[j][1]}}

\* None and the mappings of at most n entries
PropertyInputs(n) == {PyNone} \cup UNION {DictsOfSize(k) : k \in 0..n}

IndexTypeInputs ==
    {PyStr(t) : t \in IndexTypes} \cup
    {PyStr(<<"H", "N", "S", "W">>), PyStr(<<"f", "l", "a", "t">>), PyNone}

\* constructor calls: every type with every mapping of at most size entries, and
\* malformed names and options with a few mappings
IndexCalls(size) ==
    {[op |-> "VectorIndexConfig", name |-> IdxVec, distance |-> PyStr(L2),
      index_type |-> t, lib |-> PyStr(Vsag), properties |-> p] :
        t \in IndexTypeInputs, p \in PropertyInputs(size)} \cup
    {[op |-> "VectorIndexConfig", name |-> n, distance |-> d,
      index_type |-> t, lib |-> l, properties |-> p] :
        n \in {IdxVec, BadName}, d \in {PyStr(L2), PyStr(<<"L", "2">>), PyNone},
        t \in IndexTypeInputs, l \in {PyStr(Vsag), PyStr(BadName)},
        p \in {PyNone, PyDict(<<<<PyStr(K_m), PyInt(4)>>>>),
                PyDict(<<<<PyStr(Bogus), PyInt(0)>>>>)}}

\* the index objects handed to create_vector_index: constructed ones
IndexConfigs ==
    {IndexObject(IdxVec, PyStr(L2), PyStr(T_hnsw), PyStr(Vsag), PyNone),
     IndexObject(IdxVec, PyStr(L2), PyStr(T_ivf_pq), PyStr(Vsag),
                 PyDict(<<<<PyStr(K_m), PyInt(4)>>>>))}

IdAt(p) == IF p % 2 = 1 THEN <<"a">> ELSE <<"b">>
\* the id lists: a and b alternating
IdLists == {[p \in 1..n |-> IdAt(p)] : n \in 0..MaxBatch}
VectorAt(p) == IF p % 2 = 1 THEN <<1, 0, 0>> ELSE <<0, 1, 0>>
VectorLists == {[p \in 1..n |-> VectorAt(p)] : n \in 0..MaxBatch}
MetaGood == PyDict(<<<<PyStr(<<"k">>), PyStr(<<"e", "n">>)>>>>)
MetaBad == PyDict(<<<<PyStr(<<"k">>), PyObject>>>>)
\* a metadatas list of length n whose entry `bad` (if any) cannot be serialized
MetadataList(n, bad) == PyList([p \in 1..n |-> IF p = bad THEN MetaBad ELSE MetaGood])

\* well-shaped batches into the collection: metadatas is None or has one
\* entry per id, at most one of them unserializable
UpsertBatches ==
    {[op |-> "upsert", collection |-> Docs, ids |-> ids,
      vectors |-> [p \in 1..Len(ids) |-> VectorAt(p)], metadatas |-> m] :
        ids \in IdLists, m \in {PyNone}} \cup
    {[op |-> "upsert", collection |-> Docs, ids |-> [p \in 1..n |-> IdAt(p)],
      vectors |-> [p \in 1..n |-> VectorAt(p)], metadatas |-> MetadataList(n, bad)] :
        n \in 0..MaxBatch, bad \in 0..MaxBatch}

\* batches of any shape: the three lengths vary independently
UpsertShapes ==
    {[op |-> "upsert", collection |-> Docs, ids |-> ids, vectors |-> v, metadatas |-> m] :
        ids \in IdLists, v \in VectorLists,
        m \in {PyNone} \cup {MetadataList(n, 0) : n \in 0..MaxBatch}} \cup
    {[op |-> "upsert", collection |-> BadName, ids |-> ids, vectors |-> v,
      metadatas |-> PyNone] : ids \in IdLists, v \in {<<VectorAt(1)>>}}

UpsertCalls == UpsertBatches \cup UpsertShapes

\* whether the arguments pass every check made before the first statement
UpsertWellShaped(c) ==
    /\ is_identifier(c.collection)
    /\ Len(c.ids) = Len(c.vectors)
    /\ c.metadatas.t # "none" => Len(c.metadatas.v) = Len(c.ids)

(***************************************************************************)
(* Actions: one public call each.  rejectAt numbers the driver call of     *)
(* this public call that the engine refuses (0: none).                     *)
(***************************************************************************)
CreateCollection ==
    \E name \in CollectionNames, dimension \in Dimensions :
        \E rejectAt \in IF is_identifier(name) /\ dimension > 0 THEN 0..2 ELSE {0} :
            Finish(create_collection(World, name, dimension, rejectAt),
                   [op |-> "create_collection", collection |-> name,
                    dimension |-> dimension], ReturnedNone)

DeleteCollection ==
    \E name \in CollectionNames :
        \E rejectAt \in IF is_identifier(name) THEN 0..2 ELSE {0} :
            Finish(delete_collection(World, name, rejectAt),
                   [op |-> "delete_collection", collection |-> name], ReturnedNone)

CreateVectorIndex ==
    \E collection \in CollectionNames, index \in IndexConfigs :
        \E rejectAt \in IF is_identifier(collection) THEN 0..2 ELSE {0} :
            Finish(create_vector_index(World, collection, index, rejectAt),
                   [op |-> "create_vector_index", collection |-> collection,
                    index |-> index], ReturnedNone)

DeleteVectorIndex ==
    \E collection \in CollectionNames, name \in IndexNames :
        \E rejectAt \in IF is_identifier(collection) /\ is_identifier(name)
                        THEN 0..2 ELSE {0} :
            Finish(delete_vector_index(World, collection, name, rejectAt),
                   [op |-> "delete_vector_index", collection |-> collection,
                    name |-> name], ReturnedNone)

Upsert ==
    \E c \in UpsertCalls :
        \E rejectAt \in IF UpsertWellShaped(c) THEN 0..(Len(c.ids) + 1) ELSE {0} :
            Finish(upsert(World, c.collection, c.ids, c.vectors, c.metadatas, rejectAt),
                   c, ReturnedNone)

Init ==
    /\ driver \in {"sql", "seekdb"}
    /\ embedder = "none"
    /\ conn = FALSE
    /\ exists = FALSE
    /\ schema = 0
    /\ working = EmptyTable
    /\ committed = EmptyTable
    /\ call = [op |-> "init"]
    /\ err = NoError
    /\ ret = ReturnedNone
    /\ log = <<>>
    /\ OthersIdle

Next ==
    \/ CreateCollection
    \/ DeleteCollection
    \/ CreateVectorIndex
    \/ DeleteVectorIndex
    \/ Upsert

Spec == Init /\ [][Next]_vars

(***************************************************************************)
(* Properties of the store's write path.                                   *)
(***************************************************************************)
ValidationErrors ==
    {"InvalidIdentifier", "DimensionMustBePositive", "IdsVectorsMismatch",
     "MetadatasMismatch", "MetadataSerializationFailed", "DistanceRequired",
     "InvalidIndexOption", "ReturnFieldsEmpty", "InvalidFilterKey",
     "InvalidFilterValue", "EmbeddingEmpty"}

StoreOps == {"create_collection", "delete_collection", "create_vector_index",
             "delete_vector_index", "upsert", "search"}

\* the calls of the last public call that went to the driver
IsDriverCall(e) == e.m \in {"execute", "fetch_all", "commit"}
DriverCalls(l) == SelectSeq(l, IsDriverCall)

\* C1: upsert is all-or-nothing.  A call to upsert that raises leaves the rows
\* of the collection as they were, in the connection's view and durably; a
\* call that returns ran one statement per row, in order, and then one commit.
C1_UpsertAllOrNothing ==
    [][call'.op = "upsert" =>
         /\ err' # NoError => working' = working /\ committed' = committed
         /\ err' = NoError =>
               /\ Len(log') = Len(call'.ids) + 1
               /\ \A i \in 1..Len(call'.ids) :
                     /\ log'[i].m = "execute"
                     /\ log'[i].ok
                     /\ log'[i].stmt.params.id = call'.ids[i]
               /\ log'[Len(log')].m = "commit"
               /\ log'[Len(log')].ok]_vars

\* C2: a store operation that ends in a validation error has made no execute,
\* fetch_all or commit call on the driver.
C2_ValidationBeforeAnyStatement ==
    (call.op \in StoreOps /\ err \in ValidationErrors) => DriverCalls(log) = <<>>

\* C3: for a valid collection name, upsert with len(ids) # len(vectors) raises
\* the ids/vectors mismatch error, and with lists of ids and vectors of one
\* length and a metadatas list of another it raises the metadatas mismatch
\* error; in both cases the driver has received no call.
C3_LengthMismatch ==
    (call.op = "upsert" /\ is_identifier(call.collection)) =>
        /\ Len(call.ids) # Len(call.vectors) =>
              err = "IdsVectorsMismatch" /\ DriverCalls(log) = <<>>
        /\ (/\ Len(call.ids) = Len(call.vectors)
            /\ call.metadatas.t # "none"
            /\ Len(call.metadatas.v) # Len(call.ids)) =>
              err = "MetadatasMismatch" /\ DriverCalls(log) = <<>>

\* upsert(ids=["a","b"], vectors=[[1,0,0]]) has raised the mismatch error
C3_Witness ==
    /\ call.op = "upsert"
    /\ call.collection = Docs
    /\ call.ids = <<<<"a">>, <<"b">>>>
    /\ call.vectors = <<<<1, 0, 0>>>>
    /\ err = "IdsVectorsMismatch"
    /\ ret = Raised

(***************************************************************************)
(* Searching: the arguments are drawn at the start and search runs once on *)
(* them; what the embedder returns and whether the engine refuses the      *)
(* statement are the environment's choice.                                 *)
(***************************************************************************)
Lang == <<"l", "a", "n", "g">>
LangCode == <<"l", "a", "n", "g", "-", "c", "o", "d", "e">>
En == <<"e", "n">>
QueryVector == [t |-> "vector", v |-> <<1, 0, 0>>]
QueryText == PyStr(<<"h", "i">>)
\* what embed([text]) may return: nothing, one vector, more than one
EmbedReturns == {<<>>, <<<<0, 1, 0>>>>, <<<<0, 0, 1>>, <<0, 1, 0>>>>}

SearchCall(collection, query, top_k, distance, where, return_fields, incd, incm) ==
    [op |-> "search", collection |-> collection, query |-> query, top_k |-> top_k,
     distance |-> distance, where |-> where, return_fields |-> return_fields,
     include_distance |-> incd, include_metadata |-> incm]

Distances ==
    {PyNone, PyStr(L2), PyStr(L2Distance), PyStr(Cosine), PyStr(CosineDistance),
     PyStr(InnerProduct), PyStr(<<"m", "a", "n", "h", "a", "t", "t", "a", "n">>),
     PyStr(<<"b", "a", "d", "-", "d", "i", "s", "t", "a", "n", "c", "e">>),
     PyStr(<<"L", "2">>), PyInt(2)}

FieldNames == {F_id, Lang, LangCode}
FieldLists ==
    {PyNone} \cup {PyList(f) : f \in UNION {[1..n -> FieldNames] : n \in 0..MaxFields}}

WhereKeys == {PyStr(F_id), PyStr(Lang), PyStr(LangCode), PyStr(<<>>), PyInt(5)}
WhereValues == {PyNone, PyStr(En), PyObject}
WhereEntries == {<<k, v>> : k \in WhereKeys, v \in WhereValues}
Wheres ==
    {PyNone} \cup
    {PyDict(e) : e \in UNION {{f \in [1..n -> WhereEntries] :
                                 \A i, j \in 1..n : i # j => f[i][1] # f[j][1]} :
                              n \in 0..MaxWhere}}

\* every argument over a few values: how the checks of search interleave
SearchCoarse ==
    {SearchCall(c, q, k, d, w, f, incd, incm) :
        c \in {Docs, BadName}, q \in {QueryVector, QueryText}, k \in (-1)..MaxTopK,
        d \in {PyNone, PyStr(L2), PyStr(<<"m", "a", "n", "h", "a", "t", "t", "a", "n">>),
               PyStr(<<"L", "2">>)},
        w \in {PyNone, PyDict(<<<<PyStr(LangCode), PyStr(En)>>>>),
               PyDict(<<<<PyStr(Lang), PyObject>>>>), PyDict(<<<<PyStr(<<>>), PyStr(En)>>>>)},
        f \in {PyNone, PyList(<<>>), PyList(<<F_id>>), PyList(<<LangCode>>)},
        incd \in BOOLEAN, incm \in BOOLEAN}

\* one argument over all its values, the others valid
SearchDistances ==
    {SearchCall(Docs, q, 1, d, PyNone, PyNone, incd, TRUE) :
        q \in {QueryVector, QueryText}, d \in Distances, incd \in BOOLEAN}

SearchFields ==
    {SearchCall(c, QueryVector, 1, PyStr(L2), PyNone, f, incd, incm) :
        c \in {Docs, Docs \o <<"\n">>}, f \in FieldLists, incd \in BOOLEAN,
        incm \in BOOLEAN}

SearchWheres ==
    {SearchCall(Docs, QueryVector, k, PyStr(Cosine), w, PyList(<<F_id>>), incd, TRUE) :
        k \in 0..MaxTopK, w \in Wheres, incd \in BOOLEAN}

SearchCalls == SearchCoarse \cup SearchDistances \cup SearchFields \cup SearchWheres

Search ==
    /\ call.op = "search"
    /\ ret = Pending
    /\ \E embedded \in EmbedReturns, rejected \in BOOLEAN :
          LET r == search(World, call, embedded, rejected)
          IN  Finish(r.W, call, r.ret)

InitSearch ==
    /\ driver \in {"sql", "seekdb"}
    /\ embedder \in {"none", "bound"}
    /\ conn = FALSE
    /\ exists = TRUE
    /\ schema = 3
    /\ working = EmptyTable
    /\ committed = EmptyTable
    /\ call \in SearchCalls
    /\ err = NoError
    /\ ret = Pending
    /\ log = <<>>
    /\ OthersIdle

NextSearch == Search

SpecSearch == InitSearch /\ [][NextSearch]_vars

(***************************************************************************)
(* Properties of search.                                                   *)
(***************************************************************************)
SearchDone == call.op = "search" /\ ret # Pending

\* the SELECT statements the driver received during the last call
Fetched == {log[i].stmt : i \in {j \in 1..Len(log) : log[j].m = "fetch_all"}}

\* the checks search makes before it resolves the distance all pass
\* (for a vector query, which needs no embedder)
ReachesDistance(c) ==
    /\ is_identifier(c.collection)
    /\ c.top_k > 0
    /\ c.query.t = "vector"
    /\ _select_fields(c.return_fields, c.include_metadata).err = NoError

\* the distance values the alias table knows
Recognized(distance) ==
    distance.t = "str" /\ distance.v \in DistanceNames \cup DistanceFunctionNames

\* the distance function a SELECT statement calls is one of the three
CallsKnownFunction(stmt) ==
    \E f \in DistanceFunctionNames :
        /\ stmt.order_by \in {<<"_distance">>, DistanceExpr(f)}
        /\ stmt.order_by = <<"_distance">> =>
              stmt.select[Len(stmt.select)] = DistanceExpr(f) \o <<" AS _distance">>

\* C4: a distance of None raises DistanceRequired, every value that is neither
\* a canonical name nor a function name raises InvalidIndexOption, and no
\* statement calls a function outside the three distance functions.
C4_DistanceResolution ==
    SearchDone =>
        /\ (ReachesDistance(call) /\ call.distance.t = "none") => err = "DistanceRequired"
        /\ (ReachesDistance(call) /\ call.distance.t # "none"
              /\ ~Recognized(call.distance)) => err = "InvalidIndexOption"
        /\ \A stmt \in Fetched : CallsKnownFunction(stmt)

\* C5: search with top_k <= 0 and a valid collection name returns the empty
\* list and calls neither the driver (which stays unconnected) nor the embedder.
C5_NonPositiveTopK ==
    (SearchDone /\ is_identifier(call.collection) /\ call.top_k <= 0) =>
        /\ err = NoError
        /\ ret = EmptyRows
        /\ log = <<>>
        /\ conn = FALSE

\* search(query="hi", top_k=0) with an embedder bound has returned []
C5_Witness ==
    /\ SearchDone
    /\ call.collection = Docs
    /\ call.top_k = 0
    /\ call.query.t = "str"
    /\ embedder = "bound"
    /\ ret = EmptyRows

\* the calls of the last public call that went to the embedder
EmbedCalls == SelectSeq(log, LAMBDA e : e.m = "embed")

\* C6: for a text query, top_k > 0 and a valid collection name: with no
\* embedder search raises EmbeddingNotConfigured; with an embedder that returns
\* no vector it raises EmbeddingEmpty; in both cases the driver receives
\* nothing.  Otherwise the embedder was called once with the one text and
\* every statement binds the literal of the first returned vector as :query.
C6_TextQuery ==
    (SearchDone /\ is_identifier(call.collection) /\ call.top_k > 0
       /\ call.query.t = "str") =>
        /\ embedder = "none" =>
              err = "EmbeddingNotConfigured" /\ log = <<>>
        /\ embedder = "bound" =>
              /\ Len(EmbedCalls) = 1
              /\ EmbedCalls[1].texts = <<call.query.v>>
              /\ EmbedCalls[1].returned = <<>> =>
                    err = "EmbeddingEmpty" /\ DriverCalls(log) = <<>>
              /\ EmbedCalls[1].returned # <<>> =>
                    /\ err \notin {"EmbeddingNotConfigured", "EmbeddingEmpty"}
                    /\ \A stmt \in Fetched :
                          stmt.params[1] =
                              <<<<"query">>, PyStr(_vector_literal(EmbedCalls[1].returned[1]))>>

\* a text query was embedded into two vectors and the statement was fetched
C6_Witness ==
    /\ SearchDone
    /\ call.query.t = "str"
    /\ Len(EmbedCalls) = 1
    /\ Len(EmbedCalls[1].returned) = 2
    /\ Fetched # {}
    /\ err = NoError

\* fields is rf with its duplicates dropped, in the order of first occurrence
FirstIndex(rf, x) == CHOOSE i \in 1..Len(rf) : rf[i] = x /\ \A j \in 1..(i - 1) : rf[j] # x
IsDedupOf(fields, rf) ==
    /\ {fields[i] : i \in 1..Len(fields)} = {rf[i] : i \in 1..Len(rf)}
    /\ \A i, j \in 1..Len(fields) : i < j => FirstIndex(rf, fields[i]) < FirstIndex(rf, fields[j])

\* the checks search makes before it selects the fields all pass
ReachesFields(c) == is_identifier(c.collection) /\ c.top_k > 0 /\ c.query.t = "vector"

\* the columns of a statement other than the _distance column
FieldColumns(c, stmt) ==
    IF c.include_distance THEN SubSeq(stmt.select, 1, Len(stmt.select) - 1) ELSE stmt.select

\* C7: with return_fields given, the selected columns are its elements with
\* duplicates dropped in first-occurrence order, all identifiers, whatever
\* include_metadata; an empty return_fields raises ReturnFieldsEmpty; with
\* return_fields None the columns are id, plus metadata iff include_metadata.
\* The _distance column is selected (last) iff include_distance.
C7_SelectedColumns ==
    SearchDone =>
        /\ (ReachesFields(call) /\ call.return_fields = PyList(<<>>)) =>
              err = "ReturnFieldsEmpty"
        /\ (ReachesFields(call) /\ call.return_fields.t = "list"
              /\ \E i \in 1..Len(call.return_fields.v) :
                    ~is_identifier(call.return_fields.v[i])) =>
              err = "InvalidIdentifier"
        /\ \A stmt \in Fetched :
              /\ call.return_fields.t = "list" =>
                    /\ IsDedupOf(FieldColumns(call, stmt), call.return_fields.v)
                    /\ \A i \in 1..Len(call.return_fields.v) :
                          is_identifier(call.return_fields.v[i])
              /\ call.return_fields.t = "none" =>
                    FieldColumns(call, stmt) =
                        IF call.include_metadata THEN <<F_id, F_metadata>> ELSE <<F_id>>
              /\ call.include_distance <=>
                    \E f \in DistanceFunctionNames \cup {call.distance.v} :
                        stmt.select[Len(stmt.select)] = DistanceExpr(f) \o <<" AS _distance">>

\* search(return_fields=["lang", "lang"], include_metadata=True,
\* include_distance=False) selected the one column lang
C7_Witness ==
    /\ SearchDone
    /\ call.return_fields = PyList(<<Lang, Lang>>)
    /\ call.include_metadata
    /\ ~call.include_distance
    /\ \E stmt \in Fetched : stmt.select = <<Lang>>

\* the keys of a where mapping other than the literal "id"
MetadataKeys(where) ==
    IF where.t = "none" THEN {}
    ELSE {where.v[i][1] : i \in 1..Len(where.v)} \ {PyStr(F_id)}

\* C8 as stated: no search is accepted with a where key other than "id" that
\* is not an identifier.
C8_FilterKeysAreIdentifiers ==
    (SearchDone /\ Fetched # {}) =>
        \A key \in MetadataKeys(call.where) : key.t = "str" /\ is_identifier(key.v)

\* the checks search makes before it builds the where clause all pass
ReachesWhere(c) ==
    /\ ReachesFields(c)
    /\ _select_fields(c.return_fields, c.include_metadata).err = NoError
    /\ _resolve_distance(c.distance).err = NoError

\* C8, amended: a where key other than "id" must be a non-empty string.  When
\* top_k > 0 and the collection name is valid, a key that is not a string or is
\* empty makes search raise without the driver receiving a call, and the error
\* is a validation failure of the filter when the arguments checked before the
\* where mapping are valid.  Every statement that is issued binds, for each
\* such key, the JSON path of the key as a parameter.
C8_FilterKeysNonEmptyStrings ==
    SearchDone =>
        /\ (is_identifier(call.collection) /\ call.top_k > 0
              /\ \E key \in MetadataKeys(call.where) : key.t # "str" \/ key.v = <<>>) =>
              /\ err # NoError
              /\ DriverCalls(log) = <<>>
              /\ ReachesWhere(call) => err \in {"InvalidFilterKey", "InvalidFilterValue"}
        /\ \A stmt \in Fetched : \A key \in MetadataKeys(call.where) :
              /\ key.t = "str"
              /\ key.v # <<>>
              /\ \E i \in 1..Len(stmt.params) :
                    stmt.params[i][2] = PyStr(<<"$", ".">> \o JsonScalar(key))

\* search(where={"lang-code": "en"}) reached the driver
C8_Witness ==
    /\ SearchDone
    /\ call.where = PyDict(<<<<PyStr(LangCode), PyStr(En)>>>>)
    /\ err = NoError
    /\ \E stmt \in Fetched : Len(stmt.where) = 1

(***************************************************************************)
(* Constructing a VectorIndexConfig: the arguments are drawn at the start  *)
(* and the constructor runs once on them.                                  *)
(***************************************************************************)
Construct ==
    /\ call.op = "VectorIndexConfig"
    /\ ret = Pending
    /\ err' = PostInit(call.name, call.distance, call.index_type, call.lib,
                       call.properties)
    /\ ret' = IF err' = NoError
              THEN [kind |-> "index",
                    index |-> IndexObject(call.name, call.distance, call.index_type,
                                          call.lib, call.properties)]
              ELSE Raised
    /\ UNCHANGED <<driver, embedder, conn, exists, schema, working, committed, call, log>>
    /\ UNCHANGED others

InitIndex ==
    /\ driver = "sql"
    /\ embedder = "none"
    /\ conn = FALSE
    /\ exists = FALSE
    /\ schema = 0
    /\ working = EmptyTable
    /\ committed = EmptyTable
    /\ call \in IndexCalls(MaxProps)
    /\ err = NoError
    /\ ret = Pending
    /\ log = <<>>
    /\ OthersIdle

NextIndex == Construct

SpecIndex == InitIndex /\ [][NextIndex]_vars

(***************************************************************************)
(* Properties of VectorIndexConfig.                                        *)
(***************************************************************************)
ConstructDone == call.op = "VectorIndexConfig" /\ ret # Pending

\* the rules of the constructor, each as a predicate of the arguments
Rule1_Malformed(c) ==
    \/ ~is_identifier(c.name)
    \/ \E o \in {c.distance, c.index_type, c.lib} :
          o.t # "str" \/ ~is_identifier(o.v) \/ o.v # ToLower(o.v)
Rule2_UnknownType(c) == c.index_type.v \notin IndexTypes
PropKeysOf(c) == IF c.properties.t = "none" THEN {} ELSE DictKeys(c.properties.v)
Rule3_MissingRequired(c) ==
    \E k \in RequiredProps(c.index_type.v) : PyStr(k) \notin PropKeysOf(c)
Rule4_KeyNotAllowed(c) ==
    \E k \in PropKeysOf(c) : ~(k.t = "str" /\ k.v \in AllowedProps(c.index_type.v))

\* C9: the constructor reports the violated rule of highest precedence:
\* (1) malformed name or option, (2) unknown index_type, (3) missing required
\* property, (4) property key not allowed, and only then (5, 6) a malformed or
\* non-positive property value.
C9_ErrorPrecedence ==
    ConstructDone =>
        IF Rule1_Malformed(call) THEN err \in {"InvalidIdentifier", "InvalidIndexOption"}
        ELSE IF Rule2_UnknownType(call) THEN err = "UnsupportedIndexOption"
        ELSE IF Rule3_MissingRequired(call) THEN err = "MissingIndexProperty"
        ELSE IF Rule4_KeyNotAllowed(call) THEN err = "UnsupportedIndexProperty"
        ELSE err \in {NoError, "InvalidIndexPropertyName", "InvalidIndexPropertyValue"}

\* the name and the three options are well-formed and the type is known
ValidOptions(c) == ~Rule1_Malformed(c) /\ ~Rule2_UnknownType(c)

PropEntriesOf(c) ==
    IF c.properties.t = "none" THEN {}
    ELSE {c.properties.v[i] : i \in 1..Len(c.properties.v)}

\* C11: every integer property of a constructed VectorIndexConfig holds an
\* integer greater than 0; a boolean is not an integer.
C11_IntegerProperties ==
    (ConstructDone /\ err = NoError) =>
        \A e \in PropEntriesOf(call) :
            e[1].v \in _INDEX_INT_PARAMS => (e[2].t = "int" /\ e[2].v > 0)

(***************************************************************************)
(* The life of one VectorIndexConfig: it is constructed, then its holder   *)
(* tries to assign its fields, writes to the dict it passed as properties  *)
(* (the object keeps a reference to it, not a copy) and renders it.        *)
(***************************************************************************)
\* dict.__setitem__: an existing key keeps its place, a new key goes last
DictSet(entries, key, value) ==
    IF key \in DictKeys(entries)
    THEN [i \in 1..Len(entries) |->
            IF entries[i][1] = key THEN <<key, value>> ELSE entries[i]]
    ELSE Append(entries, <<key, value>>)

\* dict.__delitem__
DictDel(entries, key) == SelectSeq(entries, LAMBDA e : e[1] # key)

FrozenKeys == {PyStr(K_m), PyStr(K_ef_search), PyStr(Bogus)}
FrozenValues == {PyInt(4), PyInt(0)}
FrozenFields == {"name", "distance", "index_type", "lib", "properties"}

\* the constructor calls of this life: valid ones and one that is refused
FrozenCalls ==
    {[op |-> "VectorIndexConfig", name |-> IdxVec, distance |-> PyStr(L2),
      index_type |-> PyStr(t), lib |-> PyStr(Vsag), properties |-> p] :
        t \in {T_hnsw, T_ivf_pq},
        p \in {PyNone, PyDict(<<>>), PyDict(<<<<PyStr(K_m), PyInt(4)>>>>),
               PyDict(<<<<PyStr(K_m), PyInt(0)>>>>)}}

\* VectorIndexConfig(...): __post_init__ validates, the object keeps the dict
NewConfig ==
    /\ config = NoConfig
    /\ \E c \in FrozenCalls :
          /\ call' = c
          /\ err' = PostInit(c.name, c.distance, c.index_type, c.lib, c.properties)
          /\ config' = IF err' = NoError
                       THEN IndexObject(c.name, c.distance, c.index_type, c.lib,
                                        c.properties)
                       ELSE NoConfig
          /\ ret' = IF err' = NoError THEN ReturnedNone ELSE Raised
    /\ UNCHANGED exceptConfig

\* index.<field> = value: the frozen dataclass refuses the assignment
SetField ==
    /\ config # NoConfig
    /\ \E f \in FrozenFields :
          call' = [op |-> "setattr", field |-> f]
    /\ err' = "FrozenInstanceError"
    /\ ret' = Raised
    /\ UNCHANGED <<exceptConfig, config>>

\* index.properties[key] = value
SetProperty ==
    /\ config # NoConfig
    /\ \E k \in FrozenKeys, v \in FrozenValues :
          /\ call' = [op |-> "properties.__setitem__", key |-> k, value |-> v]
          /\ IF config.properties.t = "none"
             THEN /\ err' = "TypeError"
                  /\ ret' = Raised
                  /\ UNCHANGED config
             ELSE /\ Len(DictSet(config.properties.v, k, v)) <= MaxProps
                  /\ err' = NoError
                  /\ ret' = ReturnedNone
                  /\ config' = [config EXCEPT
                                  !.properties = PyDict(DictSet(config.properties.v, k, v))]
    /\ UNCHANGED exceptConfig

\* del index.properties[key]
DelProperty ==
    /\ config # NoConfig
    /\ \E k \in FrozenKeys :
          /\ call' = [op |-> "properties.__delitem__", key |-> k]
          /\ IF config.properties.t = "none"
             THEN /\ err' = "TypeError"
                  /\ ret' = Raised
                  /\ UNCHANGED config
             ELSE IF k \notin DictKeys(config.properties.v)
             THEN /\ err' = "KeyError"
                  /\ ret' = Raised
                  /\ UNCHANGED config
             ELSE /\ err' = NoError
                  /\ ret' = ReturnedNone
                  /\ config' = [config EXCEPT
                                  !.properties = PyDict(DictDel(config.properties.v, k))]
    /\ UNCHANGED exceptConfig

\* index.render_create_sql("docs")
RenderCreateSql ==
    /\ config # NoConfig
    /\ call' = [op |-> "render_create_sql", collection |-> Docs]
    /\ err' = render_create_sql(config, Docs, <<"embedding">>).err
    /\ ret' = [kind |-> "sql",
               stmt |-> render_create_sql(config, Docs, <<"embedding">>).stmt]
    /\ UNCHANGED <<exceptConfig, config>>

InitFrozen ==
    /\ driver = "sql"
    /\ embedder = "none"
    /\ conn = FALSE
    /\ exists = FALSE
    /\ schema = 0
    /\ working = EmptyTable
    /\ committed = EmptyTable
    /\ call = [op |-> "init"]
    /\ err = NoError
    /\ ret = ReturnedNone
    /\ log = <<>>
    /\ OthersIdle

NextFrozen ==
    \/ NewConfig
    \/ SetField
    \/ SetProperty
    \/ DelProperty
    \/ RenderCreateSql

SpecFrozen == InitFrozen /\ [][NextFrozen]_vars

\* the construction-time rules, applied to the object as it is now
ConfigValid ==
    PostInit(config.name, config.distance, config.index_type, config.lib,
             config.properties) = NoError

\* C12: once constructed, a VectorIndexConfig satisfies the construction-time
\* rules in every later state, whatever is attempted on its fields and on its
\* properties mapping, and render_create_sql renders only such an object.
C12_Immutable == config # NoConfig => ConfigValid

(***************************************************************************)
(* render_create_sql on its own: a constructed index, a collection and a   *)
(* column are drawn at the start and the method runs once on them.         *)
(***************************************************************************)
\* sep.join(parts)
RECURSIVE Join(_, _)
Join(parts, sep) ==
    IF parts = <<>> THEN <<>>
    ELSE IF Len(parts) = 1 THEN parts[1]
    ELSE parts[1] \o sep \o Join(Tail(parts), sep)

\* the text of the f-string that render_create_sql returns
CreateIndexText(stmt) ==
    <<"CREATE VECTOR INDEX ">> \o stmt.name \o <<" ON ">> \o stmt.table
    \o <<" (">> \o stmt.column \o <<") ">>
    \o <<"WITH (">> \o Join(stmt.with, <<", ">>) \o <<")">>

Embedding == <<"e", "m", "b", "e", "d", "d", "i", "n", "g">>
RenderColumns == {Embedding, Embedding \o <<"\n">>, BadName, <<>>}

RenderProperties ==
    {PyNone, PyDict(<<>>),
     PyDict(<<<<PyStr(K_m), PyInt(4)>>>>),
     PyDict(<<<<PyStr(K_nlist), PyInt(2)>>>>),
     PyDict(<<<<PyStr(K_m), PyInt(4)>>, <<PyStr(K_nlist), PyInt(2)>>>>),
     PyDict(<<<<PyStr(K_nlist), PyInt(2)>>, <<PyStr(K_m), PyInt(4)>>>>),
     PyDict(<<<<PyStr(K_ef_search), PyInt(8)>>, <<PyStr(K_m), PyInt(4)>>>>)}

\* the index objects that the constructor accepts
RenderConfigs ==
    {x \in {IndexObject(IdxVec, PyStr(d), PyStr(t), PyStr(Vsag), p) :
               d \in {L2, Cosine}, t \in IndexTypes, p \in RenderProperties} :
        PostInit(x.name, x.distance, x.index_type, x.lib, x.properties) = NoError}

RenderCalls ==
    {[op |-> "render_create_sql", index |-> x, collection |-> c, column |-> col] :
        x \in RenderConfigs, c \in CollectionNames, col \in RenderColumns}

Render ==
    /\ call.op = "render_create_sql"
    /\ ret = Pending
    /\ LET r == render_create_sql(call.index, call.collection, call.column)
       IN  /\ err' = r.err
           /\ ret' = IF r.err = NoError
                     THEN [kind |-> "sql", text |-> CreateIndexText(r.stmt)]
                     ELSE Raised
    /\ UNCHANGED <<driver, embedder, conn, exists, schema, working, committed, call, log>>
    /\ UNCHANGED others

InitRender ==
    /\ driver = "sql"
    /\ embedder = "none"
    /\ conn = FALSE
    /\ exists = FALSE
    /\ schema = 0
    /\ working = EmptyTable
    /\ committed = EmptyTable
    /\ call \in RenderCalls
    /\ err = NoError
    /\ ret = Pending
    /\ log = <<>>
    /\ OthersIdle

NextRender == Render

SpecRender == InitRender /\ [][NextRender]_vars

\* the grammar ^[A-Za-z_][A-Za-z0-9_]*$ read as a grammar of whole strings
InGrammar(s) ==
    /\ Len(s) >= 1
    /\ s[1] \in Lower \cup Upper \cup {"_"}
    /\ \A i \in 2..Len(s) : s[i] \in Lower \cup Upper \cup Digit \cup {"_"}

\* <key>=<value> for each entry of a mapping, each preceded by ", "
RECURSIVE PropertySuffix(_)
PropertySuffix(entries) ==
    IF entries = <<>> THEN <<>>
    ELSE <<", ">> \o entries[1][1].v \o <<"=">> \o StrOf(entries[1][2])
         \o PropertySuffix(Tail(entries))

\* the statement text that the rendering contract describes
ExpectedCreateText(x, collection, column) ==
    <<"CREATE VECTOR INDEX ">> \o x.name \o <<" ON ">> \o collection \o <<" (">>
    \o column \o <<") ", "WITH (">>
    \o <<"DISTANCE=">> \o x.distance.v \o <<", ", "TYPE=">> \o x.index_type.v
    \o <<", ", "LIB=">> \o x.lib.v
    \o (IF x.properties.t = "none" THEN <<>> ELSE PropertySuffix(x.properties.v))
    \o <<")">>

RenderDone == call.op = "render_create_sql" /\ ret # Pending

\* C13: render_create_sql of a valid index returns CREATE VECTOR INDEX <name>
\* ON <collection> (<column>) WITH (DISTANCE=.., TYPE=.., LIB=.. and then each
\* property as key=value in insertion order) when collection and column are
\* identifiers of the grammar, and raises InvalidIdentifier, returning no SQL,
\* when either is not.
C13_RenderCreateSql ==
    RenderDone =>
        IF InGrammar(call.collection) /\ InGrammar(call.column)
        THEN /\ err = NoError
             /\ ret = [kind |-> "sql",
                       text |-> ExpectedCreateText(call.index, call.collection,
                                                   call.column)]
        ELSE /\ err = "InvalidIdentifier"
             /\ ret = Raised

\* C13, for the collection and column names that validate_identifier lets
\* through.
C13_RenderAccepted ==
    RenderDone =>
        IF is_identifier(call.collection) /\ is_identifier(call.column)
        THEN /\ err = NoError
             /\ ret = [kind |-> "sql",
                       text |-> ExpectedCreateText(call.index, call.collection,
                                                   call.column)]
        ELSE /\ err = "InvalidIdentifier"
             /\ ret = Raised

(***************************************************************************)
(* validate_identifier on its own: the string is drawn at the start and    *)
(* the validator runs once on it.                                          *)
(***************************************************************************)
MaxIdLen == 3      \* longest string handed to validate_identifier

\* one character of each class: letters, a digit, the underscore, whitespace
\* (a space, a newline) and punctuation
IdChars == {"a", "Z", "7", "_", " ", "\n", "-", "'"}
Whitespace == {" ", "\n"}
Punctuation == {"-", "'"}

IdStrings == UNION {[1..n -> IdChars] : n \in 0..MaxIdLen}

ValidateIdentifier ==
    /\ call.op = "validate_identifier"
    /\ ret = Pending
    /\ err' = validate_identifier(call.value)
    /\ ret' = IF err' = NoError THEN ReturnedNone ELSE Raised
    /\ UNCHANGED <<driver, embedder, conn, exists, schema, working, committed, call, log>>
    /\ UNCHANGED others

InitIdentifier ==
    /\ driver = "sql"
    /\ embedder = "none"
    /\ conn = FALSE
    /\ exists = FALSE
    /\ schema = 0
    /\ working = EmptyTable
    /\ committed = EmptyTable
    /\ call \in {[op |-> "validate_identifier", value |-> s] : s \in IdStrings}
    /\ err = NoError
    /\ ret = Pending
    /\ log = <<>>
    /\ OthersIdle

NextIdentifier == ValidateIdentifier

SpecIdentifier == InitIdentifier /\ [][NextIdentifier]_vars

ValidateDone == call.op = "validate_identifier" /\ ret # Pending

\* C14: validate_identifier accepts exactly the strings of the grammar
\* ^[A-Za-z_][A-Za-z0-9_]*$; it raises InvalidIdentifier for the empty string,
\* for a leading digit, and for whitespace or punctuation other than the
\* underscore anywhere in the string, the last character included.
C14_IdentifierGrammar ==
    ValidateDone =>
        /\ (err = NoError) <=> InGrammar(call.value)
        /\ err \in {NoError, "InvalidIdentifier"}
        /\ (\/ call.value = <<>>
            \/ (Len(call.value) >= 1 /\ call.value[1] \in Digit)
            \/ \E i \in 1..Len(call.value) :
                  call.value[i] \in Whitespace \cup Punctuation)
           => err = "InvalidIdentifier"

(***************************************************************************)
(* The generic SQL driver (db/drivers/sql.py, db/drivers/sqlalchemy.py):   *)
(* one driver object under any sequence of its calls.  The engine may      *)
(* refuse any request; `refused` is that choice.                           *)
(***************************************************************************)
SqlClasses == {"SQLDatabase", "SQLAlchemyDatabase"}

\* what a failure of the engine surfaces as: SQLDatabase wraps it, the
\* SQLAlchemy driver lets it through
ConnectFailure(d) ==
    IF d.cls = "SQLDatabase" THEN "DatabaseConnectionError" ELSE "SQLAlchemyError"
QueryFailure(d) == IF d.cls = "SQLDatabase" THEN "QueryError" ELSE "SQLAlchemyError"

\* a driver and the error of the call that led to it
SqlResult(d, e) == [db |-> d, err |-> e]

\* connect(): opens a connection only when none is held
SqlConnect(d, refused) ==
    IF d._conn THEN SqlResult(d, NoError)
    ELSE IF refused THEN SqlResult(d, ConnectFailure(d))
    ELSE SqlResult([d EXCEPT !._conn = TRUE, !.live = @ + 1, !.txs = 0], NoError)

\* close(): Connection.close() ends the connection's transaction, and a
\* Transaction handle of that connection is inactive from then on; _tx is
\* left as it is
SqlClose(d) ==
    IF ~d._conn THEN SqlResult(d, NoError)
    ELSE SqlResult([d EXCEPT !._conn = FALSE, !.live = @ - 1, !.txs = 0,
                             !._tx = IF @ = "none" THEN "none" ELSE "inactive"],
                   NoError)

\* execute / fetch_all / fetch_one: the connection begins a transaction on
\* its own before the first statement
SqlStatement(d, refusedConnect, refused) ==
    LET c == SqlConnect(d, refusedConnect)
    IN  IF c.err # NoError THEN c
        ELSE LET d1 == [c.db EXCEPT !.txs = IF @ = 0 THEN 1 ELSE @]
             IN  IF refused THEN SqlResult(d1, QueryFailure(d)) ELSE SqlResult(d1, NoError)

\* begin()
SqlBegin(d, refusedConnect, refused) ==
    LET c == SqlConnect(d, refusedConnect)
    IN  IF c.err # NoError THEN c
        ELSE IF c.db._tx = "none" /\ c.db.txs = 0
        THEN (IF refused THEN SqlResult(c.db, QueryFailure(d))
              ELSE SqlResult([c.db EXCEPT !._tx = "active", !.txs = @ + 1], NoError))
        ELSE c

\* commit() and rollback(): `method` names which.  Transaction.commit() raises
\* on a handle that is no longer active; Transaction.rollback() does not.
SqlEnd(d, method, refusedConnect, refused) ==
    LET c == SqlConnect(d, refusedConnect)
    IN  IF c.err # NoError THEN c
        ELSE IF c.db._tx # "none"
        THEN (IF refused \/ (method = "commit" /\ c.db._tx = "inactive")
              THEN SqlResult([c.db EXCEPT !._tx = "inactive",
                                          !.txs = IF c.db._tx = "active" THEN 0 ELSE @],
                             QueryFailure(d))
              ELSE SqlResult([c.db EXCEPT !._tx = "none",
                                          !.txs = IF c.db._tx = "active" THEN 0 ELSE @],
                             NoError))
        ELSE IF refused THEN SqlResult(c.db, QueryFailure(d))
        ELSE SqlResult([c.db EXCEPT !.txs = 0], NoError)

\* the state after a call on the driver
SqlFinish(op, r) ==
    /\ sqldb' = r.db
    /\ err' = r.err
    /\ ret' = IF r.err = NoError THEN ReturnedNone ELSE Raised
    /\ call' = [op |-> op]
    /\ UNCHANGED exceptSqldb

DriverConnect == \E refused \in BOOLEAN : SqlFinish("connect", SqlConnect(sqldb, refused))

DriverClose == SqlFinish("close", SqlClose(sqldb))

DriverExecute ==
    \E refusedConnect \in {FALSE, ~sqldb._conn}, refused \in BOOLEAN :
        SqlFinish("execute", SqlStatement(sqldb, refusedConnect, refused))

DriverFetch ==
    \E op \in {"fetch_all", "fetch_one"} :
        \E refusedConnect \in {FALSE, ~sqldb._conn}, refused \in BOOLEAN :
            SqlFinish(op, SqlStatement(sqldb, refusedConnect, refused))

DriverBegin ==
    \E refusedConnect \in {FALSE, ~sqldb._conn}, refused \in BOOLEAN :
        SqlFinish("begin", SqlBegin(sqldb, refusedConnect, refused))

DriverCommit ==
    \E refusedConnect \in {FALSE, ~sqldb._conn}, refused \in BOOLEAN :
        SqlFinish("commit", SqlEnd(sqldb, "commit", refusedConnect, refused))

DriverRollback ==
    \E refusedConnect \in {FALSE, ~sqldb._conn}, refused \in BOOLEAN :
        SqlFinish("rollback", SqlEnd(sqldb, "rollback", refusedConnect, refused))

InitDriver ==
    /\ driver = "sql"
    /\ embedder = "none"
    /\ conn = FALSE
    /\ exists = FALSE
    /\ schema = 0
    /\ working = EmptyTable
    /\ committed = EmptyTable
    /\ call = [op |-> "init"]
    /\ err = NoError
    /\ ret = ReturnedNone
    /\ log = <<>>
    /\ config = NoConfig
    /\ sqldb \in {NewSqlDatabase(cls) : cls \in SqlClasses}
    /\ process = NoProcess
    /\ registry = EmptyRegistry

NextDriver ==
    \/ DriverConnect
    \/ DriverClose
    \/ DriverExecute
    \/ DriverFetch
    \/ DriverBegin
    \/ DriverCommit
    \/ DriverRollback

SpecDriver == InitDriver /\ [][NextDriver]_vars

\* a transaction is open: the driver holds a live handle, or its connection
\* is in a transaction
TransactionOpen == sqldb._tx = "active" \/ (sqldb._conn /\ sqldb.txs > 0)

\* C15: over any sequence of calls the driver has at most one connection and
\* at most one transaction; begin() while a transaction is open changes
\* nothing; after any call to commit() or rollback() the driver holds no
\* transaction handle.
C15_TransactionHandle ==
    [][/\ sqldb'.live <= 1
       /\ sqldb'.txs <= 1
       /\ (call'.op = "begin" /\ TransactionOpen) => sqldb' = sqldb
       /\ call'.op \in {"commit", "rollback"} => sqldb'._tx = "none"]_vars

(***************************************************************************)
(* The embedded-engine driver (db/drivers/seekdb.py): the SeekdbDatabase   *)
(* instances of one process, the module global _OPENED_PATH, the engine    *)
(* and the file system.  Paths are sequences of segments.                  *)
(***************************************************************************)
NumInstances == 2     \* SeekdbDatabase instances in the process

Instances == 1..NumInstances

\* the working directory of the process
Cwd == <<"/", "srv">>

\* os.path.abspath(path): the working directory is put before a relative
\* path and "." segments are dropped
Abspath(path) ==
    LET clean == SelectSeq(path, LAMBDA seg : seg # ".")
    IN  IF path # <<>> /\ path[1] = "/" THEN clean ELSE Cwd \o clean

\* the paths handed to SeekdbDatabase(path=...): one directory under two
\* spellings, another directory, and a regular file
PathSpellings == {<<"data">>, <<".", "data">>, <<"other">>, <<"notes.txt">>}

\* the file system at the start: data is absent, other is a directory,
\* notes.txt is a regular file
FsAtStart ==
    [p \in {Abspath(s) : s \in PathSpellings} |->
        IF p = Abspath(<<"other">>) THEN "dir"
        ELSE IF p = Abspath(<<"notes.txt">>) THEN "file" ELSE "absent"]

\* SeekdbDatabase.__init__(path=...)
NewSeekdbDatabase(path) == [_path |-> Abspath(path), _conn |-> FALSE]

\* a process and the error of the call that led to it; opened tells whether
\* the call reached seekdb.open
SeekdbResult(P, e, opened) == [P |-> P, err |-> e, opened |-> opened]

\* _ensure_data_path(path)
_ensure_data_path(P, path) ==
    IF P.fs[path] = "file" THEN SeekdbResult(P, "SeekdbPathNotDirectory", FALSE)
    ELSE SeekdbResult([P EXCEPT !.fs[path] = "dir"], NoError, FALSE)

\* An _open_seekdb that opens whatever path it is given.
_open_seekdb_unguarded(P, path, refused) ==
    IF refused THEN SeekdbResult(P, "ConnectionFailed", TRUE)
    ELSE SeekdbResult([P EXCEPT !.engine = path, !._OPENED_PATH = path], NoError, TRUE)

\* _open_seekdb(seekdb, path): seekdb.open raises "initialized twice" when the
\* engine is open already, and may fail for other reasons
_open_seekdb(P, path, refused) ==
    IF P._OPENED_PATH = NoPath
    THEN IF P.engine # NoPath
         THEN SeekdbResult([P EXCEPT !._OPENED_PATH = path], NoError, TRUE)
         ELSE IF refused THEN SeekdbResult(P, "ConnectionFailed", TRUE)
         ELSE SeekdbResult([P EXCEPT !.engine = path, !._OPENED_PATH = path],
                           NoError, TRUE)
    ELSE IF Abspath(path) # Abspath(P._OPENED_PATH)
    THEN SeekdbResult(P, "SeekdbAlreadyOpened", FALSE)
    ELSE SeekdbResult(P, NoError, FALSE)

\* SeekdbDatabase.connect() of instance i
SeekdbConnect(P, i, refusedOpen, refusedConnect) ==
    IF P.inst[i]._conn THEN SeekdbResult(P, NoError, FALSE)
    ELSE LET e == _ensure_data_path(P, P.inst[i]._path)
         IN  IF e.err # NoError THEN e
             ELSE LET o == _open_seekdb(e.P, P.inst[i]._path, refusedOpen)
                  IN  IF o.err # NoError THEN o
                      ELSE IF refusedConnect
                      THEN SeekdbResult(o.P, "ConnectionFailed", o.opened)
                      ELSE SeekdbResult([o.P EXCEPT !.inst[i]._conn = TRUE],
                                        NoError, o.opened)

\* SeekdbDatabase.close() of instance i
SeekdbClose(P, i) == SeekdbResult([P EXCEPT !.inst[i]._conn = FALSE], NoError, FALSE)

ProcessConnect ==
    \E i \in Instances, refusedOpen \in BOOLEAN, refusedConnect \in BOOLEAN :
        LET r == SeekdbConnect(process, i, refusedOpen, refusedConnect)
        IN  /\ process' = r.P
            /\ err' = r.err
            /\ ret' = IF r.err = NoError THEN ReturnedNone ELSE Raised
            /\ call' = [op |-> "connect", inst |-> i, opened |-> r.opened,
                        refused |-> refusedConnect]
            /\ UNCHANGED exceptProcess

ProcessClose ==
    \E i \in Instances :
        LET r == SeekdbClose(process, i)
        IN  /\ process' = r.P
            /\ err' = r.err
            /\ ret' = ReturnedNone
            /\ call' = [op |-> "close", inst |-> i, opened |-> r.opened,
                        refused |-> FALSE]
            /\ UNCHANGED exceptProcess

InitProcess ==
    /\ driver = "seekdb"
    /\ embedder = "none"
    /\ conn = FALSE
    /\ exists = FALSE
    /\ schema = 0
    /\ working = EmptyTable
    /\ committed = EmptyTable
    /\ call = [op |-> "init"]
    /\ err = NoError
    /\ ret = ReturnedNone
    /\ log = <<>>
    /\ config = NoConfig
    /\ sqldb = NewSqlDatabase("SQLDatabase")
    /\ registry = EmptyRegistry
    /\ \E paths \in [Instances -> PathSpellings] :
          process = [_OPENED_PATH |-> NoPath, engine |-> NoPath, fs |-> FsAtStart,
                     inst |-> [i \in Instances |-> NewSeekdbDatabase(paths[i])]]

NextProcess == ProcessConnect \/ ProcessClose

SpecProcess == InitProcess /\ [][NextProcess]_vars

\* the step is connect() on an instance that holds no connection, made after
\* some path was opened
ConnectAfterOpen ==
    /\ call'.op = "connect"
    /\ process._OPENED_PATH # NoPath
    /\ ~process.inst[call'.inst]._conn

\* the guard is set once and kept; the engine is opened on the guarded path
\* and on no other; seekdb.open is not called once the guard is set
GuardKept ==
    /\ process._OPENED_PATH # NoPath =>
          /\ process'._OPENED_PATH = process._OPENED_PATH
          /\ process'.engine = process.engine
          /\ ~call'.opened
    /\ process'.engine # NoPath => process'.engine = process'._OPENED_PATH

MaxSqlLen == 4     \* longest SQL text handed to the driver

\* _escape_sql(value): every quote is doubled
RECURSIVE _escape_sql(_)
_escape_sql(value) ==
    IF value = <<>> THEN <<>>
    ELSE (IF Head(value) = "'" THEN <<"'", "'">> ELSE <<Head(value)>>)
         \o _escape_sql(Tail(value))

\* a float that is not finite: str() gives its name
PyFloatNamed(name) == [t |-> "float", v |-> 0, name |-> name]

\* bytes(value).decode("utf-8", errors="replace"): a byte that is not valid
\* UTF-8 becomes the replacement character
DecodeBytes(b) == [i \in 1..Len(b) |-> IF b[i] = "\\xff" THEN "\\ufffd" ELSE b[i]]

\* _sql_literal(value)
_sql_literal(value) ==
    CASE value.t = "none" -> <<"N", "U", "L", "L">>
      [] value.t = "bool" -> IF value.v THEN <<"1">> ELSE <<"0">>
      [] value.t = "int" -> IntText(value.v)
      [] value.t = "float" -> IF "name" \in DOMAIN value THEN value.name
                              ELSE IntText(value.v) \o <<".", "0">>
      [] value.t = "bytes" -> <<"'">> \o _escape_sql(DecodeBytes(value.v)) \o <<"'">>
      [] OTHER -> <<"'">> \o _escape_sql(value.v) \o <<"'">>

\* the value stored in a mapping under a key
DictGet(entries, key) == entries[CHOOSE i \in 1..Len(entries) : entries[i][1] = key][2]

\* the end of the longest run of [A-Za-z0-9_] that starts at position i
RECURSIVE NameEnd(_, _)
NameEnd(sql, i) ==
    IF i < Len(sql) /\ IsTailChar(sql[i + 1]) THEN NameEnd(sql, i + 1) ELSE i

\* _PARAM_RE matches at position i: a colon and a name after it
ParamAt(sql, i) == sql[i] = ":" /\ i < Len(sql) /\ IsHeadChar(sql[i + 1])

\* _PARAM_RE.sub(replace, sql) from position i on: [err, text]
RECURSIVE SubFrom(_, _, _)
SubFrom(sql, entries, i) ==
    IF i > Len(sql) THEN [err |-> NoError, text |-> <<>>]
    ELSE IF ParamAt(sql, i)
    THEN LET j == NameEnd(sql, i + 1)
             name == PyStr(SubSeq(sql, i + 1, j))
         IN  IF name \notin DictKeys(entries)
             THEN [err |-> "MissingSqlParameter", text |-> <<>>]
             ELSE LET rest == SubFrom(sql, entries, j + 1)
                  IN  [err |-> rest.err,
                       text |-> _sql_literal(DictGet(entries, name)) \o rest.text]
    ELSE LET rest == SubFrom(sql, entries, i + 1)
         IN  [err |-> rest.err, text |-> <<sql[i]>> \o rest.text]

\* _render_sql(sql, params): `not params` holds for None and for an empty mapping
_render_sql(sql, params) ==
    IF params.t = "none" \/ params.v = <<>> THEN [err |-> NoError, text |-> sql]
    ELSE LET r == SubFrom(sql, params.v, 1)
         IN  IF r.err # NoError THEN [err |-> r.err, text |-> <<>>] ELSE r

SqlChars == {":", "a", "b", "1", " "}
SqlTexts == UNION {[1..n -> SqlChars] : n \in 0..MaxSqlLen}
SqlParams ==
    {PyNone, PyDict(<<>>),
     PyDict(<<<<PyStr(<<"a">>), PyInt(7)>>>>),
     PyDict(<<<<PyStr(<<"a">>), PyStr(<<"o", "'", "k">>)>>,
              <<PyStr(<<"b">>), PyBool(TRUE)>>>>)}
SeekdbCalls ==
    {[op |-> op, sql |-> s, params |-> p] :
        op \in {"execute", "fetch_all", "fetch_one"}, s \in SqlTexts, p \in SqlParams}

\* SeekdbDatabase.execute / fetch_all / fetch_one (sql, params): the text is
\* rendered, then handed to cursor.execute, which the engine may refuse
SeekdbStatement ==
    /\ call.op \in {"execute", "fetch_all", "fetch_one"}
    /\ ret = Pending
    /\ \E refused \in BOOLEAN :
          LET r == _render_sql(call.sql, call.params)
          IN  IF r.err # NoError
              THEN /\ err' = r.err
                   /\ ret' = Raised
                   /\ log' = log
              ELSE /\ log' = Append(log, [m |-> "cursor.execute", sql |-> r.text])
                   /\ err' = IF ~refused THEN NoError
                             ELSE IF call.op = "execute" THEN "ExecutionFailed"
                             ELSE "FetchFailed"
                   /\ ret' = IF refused THEN Raised ELSE ReturnedNone
    /\ UNCHANGED <<driver, embedder, conn, exists, schema, working, committed, call>>
    /\ UNCHANGED others

InitSeekdbSql ==
    /\ driver = "seekdb"
    /\ embedder = "none"
    /\ conn = TRUE
    /\ exists = FALSE
    /\ schema = 0
    /\ working = EmptyTable
    /\ committed = EmptyTable
    /\ call \in SeekdbCalls
    /\ err = NoError
    /\ ret = Pending
    /\ log = <<>>
    /\ OthersIdle

NextSeekdbSql == SeekdbStatement

SpecSeekdbSql == InitSeekdbSql /\ [][NextSeekdbSql]_vars

\* the names of the placeholders :name of a text
PlaceholderNames(sql) ==
    {SubSeq(sql, i + 1, NameEnd(sql, i + 1)) :
        i \in {k \in 1..Len(sql) : ParamAt(sql, k)}}

\* the names for which params gives a value
ParamNames(params) ==
    IF params.t = "none" THEN {} ELSE {k.v : k \in DictKeys(params.v)}

SeekdbDone == call.op \in {"execute", "fetch_all", "fetch_one"} /\ ret # Pending

\* C17: when the text has a placeholder :name for which params (a mapping, an
\* empty mapping or None) has no value, the call raises MissingSqlParameter
\* and nothing is sent to the engine; whatever is sent has had every
\* placeholder of the text substituted.
C17_MissingPlaceholder ==
    SeekdbDone =>
        /\ ~(PlaceholderNames(call.sql) \subseteq ParamNames(call.params)) =>
              (err = "MissingSqlParameter" /\ log = <<>>)
        /\ log # <<>> => PlaceholderNames(call.sql) \subseteq ParamNames(call.params)

(***************************************************************************)
(* The extension registry (registry.py): three module-level dicts from     *)
(* normalized name to factory, under any sequence of register_* and get_*. *)
(***************************************************************************)
MaxEntries == 2    \* most entries in the three dicts together

Kinds == {"db_driver", "vector_store", "embedder"}

\* the dict of a kind
Factories(R, kind) ==
    CASE kind = "db_driver" -> R._db_factories
      [] kind = "vector_store" -> R._vector_factories
      [] OTHER -> R._embedder_factories

WithFactories(R, kind, entries) ==
    CASE kind = "db_driver" -> [R EXCEPT !._db_factories = entries]
      [] kind = "vector_store" -> [R EXCEPT !._vector_factories = entries]
      [] OTHER -> [R EXCEPT !._embedder_factories = entries]

\* str.strip(): whitespace is dropped at both ends
IsSpace(c) == c \in {" ", "\t", "\n"}
RECURSIVE LStrip(_)
LStrip(s) == IF s # <<>> /\ IsSpace(Head(s)) THEN LStrip(Tail(s)) ELSE s
RECURSIVE RStrip(_)
RStrip(s) ==
    IF s # <<>> /\ IsSpace(s[Len(s)]) THEN RStrip(SubSeq(s, 1, Len(s) - 1)) ELSE s
Strip(s) == RStrip(LStrip(s))

\* A normalization that strips and keeps the case.
_normalize_name_keeps_case(name) ==
    IF Strip(name) = <<>> THEN [err |-> "ValueError", value |-> <<>>]
    ELSE [err |-> NoError, value |-> Strip(name)]

\* _normalize_name(name): [err, value]
_normalize_name(name) ==
    LET value == ToLower(Strip(name))
    IN  IF value = <<>> THEN [err |-> "ValueError", value |-> <<>>]
        ELSE [err |-> NoError, value |-> value]

\* the text that the get_* functions put before the name in their message
KindLabel(kind) ==
    CASE kind = "db_driver" -> "Database driver"
      [] kind = "vector_store" -> "Vector store"
      [] OTHER -> "Embedder"

\* ExtensionNotFoundError(*args): __init__(self, kind, name) takes exactly two
\* arguments; a call with another number of them raises TypeError instead of
\* building the error
ExtensionNotFoundError(args) ==
    IF Len(args) = 2
    THEN [type |-> "ExtensionNotFoundError", carried |-> args]
    ELSE [type |-> "TypeError", carried |-> <<>>]

\* a registry, the error raised and the value returned
RegistryResult(R, e, value) == [R |-> R, error |-> e, value |-> value]

NothingRaised == [type |-> NoError, carried |-> <<>>]
NoFactory == "None"

\* register_db_driver / register_vector_store / register_embedder (name, factory)
register(R, kind, name, factory) ==
    LET key == _normalize_name(name)
    IN  IF key.err # NoError
        THEN RegistryResult(R, [type |-> key.err, carried |-> <<>>], NoFactory)
        ELSE RegistryResult(
                WithFactories(R, kind, DictSet(Factories(R, kind), key.value, factory)),
                NothingRaised, NoFactory)

\* get_db_driver / get_vector_store / get_embedder (name): the except clause
\* builds the error from one formatted message
get(R, kind, name) ==
    LET key == _normalize_name(name)
    IN  IF key.err # NoError
        THEN RegistryResult(R, [type |-> key.err, carried |-> <<>>], NoFactory)
        ELSE IF key.value \in DictKeys(Factories(R, kind))
        THEN RegistryResult(R, NothingRaised, DictGet(Factories(R, kind), key.value))
        ELSE RegistryResult(R, ExtensionNotFoundError(<<<<KindLabel(kind), name>>>>),
                            NoFactory)

Sql == <<"s", "q", "l">>
Llm == <<"l", "l", "m">>
\* names under two spellings, and a name that is empty once stripped
ExtensionNames == {Sql, <<" ", "S", "q", "L", "\n">>, Llm, <<" ">>}
UserFactories == {"factory_f", "factory_g"}

\* the state after a call on the registry
RegistryFinish(c, r) ==
    /\ registry' = r.R
    /\ call' = c
    /\ err' = r.error.type
    /\ ret' = IF r.error.type # NoError
              THEN [kind |-> "raised", carried |-> r.error.carried]
              ELSE [kind |-> "factory", factory |-> r.value]
    /\ UNCHANGED exceptRegistry

\* the entries of the three dicts together
TotalEntries(R) ==
    Len(R._db_factories) + Len(R._vector_factories) + Len(R._embedder_factories)

Register ==
    \E kind \in Kinds, name \in ExtensionNames, factory \in UserFactories :
        LET r == register(registry, kind, name, factory)
        IN  /\ TotalEntries(r.R) <= MaxEntries
            /\ RegistryFinish([op |-> "register", kind |-> kind, name |-> name,
                               factory |-> factory], r)

Get ==
    \E kind \in Kinds, name \in ExtensionNames :
        RegistryFinish([op |-> "get", kind |-> kind, name |-> name],
                       get(registry, kind, name))

InitRegistry ==
    /\ driver = "sql"
    /\ embedder = "none"
    /\ conn = FALSE
    /\ exists = FALSE
    /\ schema = 0
    /\ working = EmptyTable
    /\ committed = EmptyTable
    /\ call = [op |-> "init"]
    /\ err = NoError
    /\ ret = ReturnedNone
    /\ log = <<>>
    /\ OthersIdle

NextRegistry == Register \/ Get

SpecRegistry == InitRegistry /\ [][NextRegistry]_vars

\* the stripped, lower-cased form of a name
Normalized(name) ==
    LET inner == {i \in 1..Len(name) : ~IsSpace(name[i])}
    IN  IF inner = {} THEN <<>>
        ELSE LET first == CHOOSE i \in inner : \A j \in inner : i <= j
                 last == CHOOSE i \in inner : \A j \in inner : i >= j
             IN  [k \in 1..(last - first + 1) |-> LowerChar(name[first + k - 1])]

\* a factory is registered for the kind under the name's normalized form
IsRegistered(R, kind, name) ==
    \E i \in 1..Len(Factories(R, kind)) : Factories(R, kind)[i][1] = Normalized(name)

\* C18: get_* of a name that is not registered (and not empty once stripped)
\* raises ExtensionNotFound, carrying the kind and the requested name, and
\* leaves the registry unchanged.
C18_UnregisteredLookup ==
    [][(/\ call'.op = "get"
        /\ Normalized(call'.name) # <<>>
        /\ ~IsRegistered(registry, call'.kind, call'.name))
       => /\ err' = "ExtensionNotFoundError"
          /\ ret' = [kind |-> "raised",
                     carried |-> <<KindLabel(call'.kind), call'.name>>]
          /\ registry' = registry]_vars

\* the factory stored for the kind under the name's normalized form
RegisteredFactory(R, kind, name) ==
    LET entries == Factories(R, kind)
    IN  entries[CHOOSE i \in 1..Len(entries) : entries[i][1] = Normalized(name)][2]

\* the number of entries of the kind's dict under the name's normalized form
EntriesFor(R, kind, name) ==
    Cardinality({i \in 1..Len(Factories(R, kind)) :
                    Factories(R, kind)[i][1] = Normalized(name)})

\* C19: after register_*(n, f) a lookup of every name with the same stripped,
\* lower-cased form finds f, in one entry that replaces any earlier one;
\* lookups of other names and of other kinds are as before; get_* returns the
\* registered factory and changes nothing, so a registration lasts until
\* another one under an equivalent name.
C19_RegistryRoundTrip ==
    [][/\ (call'.op = "register" /\ err' = NoError) =>
            /\ \A n \in ExtensionNames :
                  Normalized(n) = Normalized(call'.name) =>
                     /\ get(registry', call'.kind, n).error = NothingRaised
                     /\ get(registry', call'.kind, n).value = call'.factory
            /\ EntriesFor(registry', call'.kind, call'.name) = 1
            /\ \A n \in ExtensionNames :
                  Normalized(n) # Normalized(call'.name) =>
                     /\ get(registry', call'.kind, n).error
                           = get(registry, call'.kind, n).error
                     /\ get(registry', call'.kind, n).value
                           = get(registry, call'.kind, n).value
            /\ \A k \in Kinds \ {call'.kind} :
                  Factories(registry', k) = Factories(registry, k)
       /\ (call'.op = "register" /\ err' # NoError) => registry' = registry
       /\ call'.op = "get" =>
            /\ registry' = registry
            /\ IsRegistered(registry, call'.kind, call'.name) =>
                  /\ err' = NoError
                  /\ ret' = [kind |-> "factory",
                             factory |-> RegisteredFactory(registry, call'.kind,
                                                           call'.name)]]_vars

\* get_db_driver("sql") has returned factory_g from a dict of one entry, while
\* the vector stores have factory_f under the same name
C19_Witness ==
    /\ call = [op |-> "get", kind |-> "db_driver", name |-> Sql]
    /\ ret = [kind |-> "factory", factory |-> "factory_g"]
    /\ registry._db_factories = <<<<Sql, "factory_g">>>>
    /\ registry._vector_factories = <<<<Sql, "factory_f">>>>

(***************************************************************************)
(* The embedding adapters (embeddings/llm.py, embeddings/any_llm.py): the  *)
(* texts and the provider's response are drawn at the start and embed runs *)
(* once on them.                                                           *)
(***************************************************************************)
MaxTexts == 2      \* longest list of texts handed to embed
MaxVectors == 2    \* most vectors in a provider response

EmbedderClasses == {"LLMEmbedder", "AnyLLMEmbedder"}

\* what each adapter raises for a response it cannot read
UnsupportedResponse(cls) ==
    IF cls = "LLMEmbedder" THEN "EmbeddingResponseUnsupported" ELSE "TypeError"
MissingEmbedding(cls) ==
    IF cls = "LLMEmbedder" THEN "EmbeddingMissing" ELSE "TypeError"

\* [float(x) for x in item]
Floats(item) == [i \in 1..Len(item) |-> PyFloat(item[i].v)]

\* _from_data_list(data): [err, vectors]
RECURSIVE _from_data_list(_, _)
_from_data_list(cls, data) ==
    IF data = <<>> THEN [err |-> NoError, vectors |-> <<>>]
    ELSE IF Head(data).shape \notin {"dict", "object"}
    THEN [err |-> MissingEmbedding(cls), vectors |-> <<>>]
    ELSE LET rest == _from_data_list(cls, Tail(data))
         IN  IF rest.err # NoError THEN rest
             ELSE [err |-> NoError,
                   vectors |-> <<Floats(Head(data).embedding)>> \o rest.vectors]

\* _normalize_embeddings(result): [err, vectors]
_normalize_embeddings(cls, result) ==
    IF result.shape = "list" /\ \A i \in 1..Len(result.items) :
                                   result.items[i].shape = "list"
    THEN [err |-> NoError,
          vectors |-> [i \in 1..Len(result.items) |-> Floats(result.items[i].embedding)]]
    ELSE IF result.shape \in {"dict_data", "object_data"}
    THEN _from_data_list(cls, result.items)
    ELSE IF result.shape = "dict_embeddings"
    THEN [err |-> NoError,
          vectors |-> [i \in 1..Len(result.items) |-> Floats(result.items[i].embedding)]]
    ELSE [err |-> UnsupportedResponse(cls), vectors |-> <<>>]

\* the i-th vector of a response
ResponseVector(i) ==
    IF i % 2 = 1 THEN <<PyInt(1), PyFloat(0)>> ELSE <<PyFloat(0), PyInt(1)>>

ResponseItems(n, shape) == [i \in 1..n |-> [shape |-> shape, embedding |-> ResponseVector(i)]]

\* provider responses: a list of lists, a list holding something else, a dict
\* or an object with data whose items are dicts, objects or neither, a dict
\* with embeddings, and a response of no known form
Responses ==
    {[shape |-> "list", items |-> ResponseItems(n, "list")] : n \in 0..MaxVectors} \cup
    {[shape |-> "list", items |-> ResponseItems(1, "bare")]} \cup
    {[shape |-> s, items |-> ResponseItems(n, i)] :
        s \in {"dict_data", "object_data"}, n \in 0..MaxVectors,
        i \in {"dict", "object", "bare"}} \cup
    {[shape |-> "dict_embeddings", items |-> ResponseItems(n, "list")] :
        n \in 0..MaxVectors} \cup
    {[shape |-> "other", items |-> <<>>]}

TextAt(i) == IF i % 2 = 1 THEN <<"a">> ELSE <<"b">>
TextLists == {[i \in 1..n |-> TextAt(i)] : n \in 0..MaxTexts}

EmbedderCalls ==
    {[op |-> "embed", cls |-> c, texts |-> t, response |-> r] :
        c \in EmbedderClasses, t \in TextLists, r \in Responses}

\* LLMEmbedder.embed / AnyLLMEmbedder.embed (texts)
Embed ==
    /\ call.op = "embed"
    /\ ret = Pending
    /\ IF call.texts = <<>>
       THEN /\ err' = NoError
            /\ ret' = [kind |-> "vectors", vectors |-> <<>>]
            /\ log' = log
       ELSE LET r == _normalize_embeddings(call.cls, call.response)
            IN  /\ log' = Append(log, [m |-> "api.embedding", texts |-> call.texts])
                /\ err' = r.err
                /\ ret' = IF r.err = NoError
                          THEN [kind |-> "vectors", vectors |-> r.vectors]
                          ELSE Raised
    /\ UNCHANGED <<driver, embedder, conn, exists, schema, working, committed, call>>
    /\ UNCHANGED others

InitEmbed ==
    /\ driver = "sql"
    /\ embedder = "bound"
    /\ conn = FALSE
    /\ exists = FALSE
    /\ schema = 0
    /\ working = EmptyTable
    /\ committed = EmptyTable
    /\ call \in EmbedderCalls
    /\ err = NoError
    /\ ret = Pending
    /\ log = <<>>
    /\ OthersIdle

NextEmbed == Embed

SpecEmbed == InitEmbed /\ [][NextEmbed]_vars

EmbedDone == call.op = "embed" /\ ret # Pending

\* C20: embed returns one vector per input text for every provider response
\* it accepts, and for no texts it returns the empty list without calling the
\* provider.
C20_OneVectorPerText ==
    EmbedDone =>
        /\ err = NoError => Len(ret.vectors) = Len(call.texts)
        /\ call.texts = <<>> =>
              (err = NoError /\ ret = [kind |-> "vectors", vectors |-> <<>>]
                 /\ log = <<>>)

(***************************************************************************)
(* What a failure of the engine surfaces as, for the three drivers         *)
(* (db/drivers/sql.py, db/drivers/sqlalchemy.py, db/drivers/seekdb.py):    *)
(* the call and the step of it at which the engine fails are drawn at the  *)
(* start and the call runs once.                                           *)
(***************************************************************************)
DriverClasses == {"SQLDatabase", "SQLAlchemyDatabase", "SeekdbDatabase"}
StatementOps == {"execute", "fetch_all", "fetch_one"}
TransactionOps == {"begin", "commit", "rollback"}
DriverOps == {"connect"} \cup StatementOps \cup TransactionOps

\* the exception the engine raises
EngineFailure(cls) == IF cls = "SeekdbDatabase" THEN "EngineError" ELSE "SQLAlchemyError"

\* an exception, its __cause__ and whether it came from the SDK's taxonomy
Failure(type, cause) == [type |-> type, cause |-> cause]
NoFailure == Failure(NoError, NoError)

\* the steps of a call at which the engine can fail: opening the engine
\* (with or without the words "initialized twice" in the message) and
\* connecting, when no connection is held; obtaining the cursor, running the
\* statement, reading the rows and closing the cursor; the transaction method
StepsOf(cls, op, connected) ==
    (IF connected THEN {}
     ELSE {"connect"} \cup
          (IF cls = "SeekdbDatabase" THEN {"open", "open_twice"} ELSE {})) \cup
    (IF op \in StatementOps
     THEN {"execute"} \cup
          (IF op = "execute" THEN {} ELSE {"fetch"}) \cup
          (IF cls = "SeekdbDatabase" THEN {"cursor", "cursor_close"} ELSE {})
     ELSE {}) \cup
    (IF op \in TransactionOps THEN {"method"} ELSE {})

\* connect() of the three drivers
WrapConnect(c) ==
    IF c.connected THEN NoFailure
    ELSE IF c.cls = "SeekdbDatabase"
    THEN (IF c.fails = "open"
          THEN Failure("DatabaseError.connection_failed", EngineFailure(c.cls))
          ELSE IF c.fails = "connect"
          THEN Failure("DatabaseError.connection_failed", EngineFailure(c.cls))
          ELSE NoFailure)
    ELSE IF c.fails = "connect"
    THEN (IF c.cls = "SQLDatabase"
          THEN Failure("DatabaseConnectionError", EngineFailure(c.cls))
          ELSE Failure(EngineFailure(c.cls), NoError))
    ELSE NoFailure

\* SeekdbDatabase.execute / fetch_all / fetch_one after _connection(): the
\* finally clause closes a cursor that was never bound when conn.cursor()
\* raised, and an exception of the finally clause replaces the one in flight
SeekdbStatementFailure(c) ==
    LET wrapped == IF c.op = "execute" THEN "DatabaseError.execution_failed"
                   ELSE "DatabaseError.fetch_failed"
    IN  IF c.fails = "cursor" THEN Failure("UnboundLocalError", NoError)
        ELSE IF c.fails \in {"execute", "fetch"}
        THEN Failure(wrapped, EngineFailure(c.cls))
        ELSE IF c.fails = "cursor_close" THEN Failure(EngineFailure(c.cls), NoError)
        ELSE NoFailure

\* the same of SQLDatabase and SQLAlchemyDatabase
SqlStatementFailure(c) ==
    IF c.fails \in {"execute", "fetch"}
    THEN (IF c.cls = "SQLDatabase" THEN Failure("QueryError", EngineFailure(c.cls))
          ELSE Failure(EngineFailure(c.cls), NoError))
    ELSE NoFailure

\* begin / commit / rollback after _connection()
TransactionFailure(c) ==
    IF c.fails # "method" THEN NoFailure
    ELSE IF c.cls = "SeekdbDatabase"
    THEN Failure("DatabaseError.transaction_failed", EngineFailure(c.cls))
    ELSE IF c.cls = "SQLDatabase" THEN Failure("QueryError", EngineFailure(c.cls))
    ELSE Failure(EngineFailure(c.cls), NoError)

\* a call on a driver: _connection() first, then the operation
DriverCallFailure(c) ==
    LET connecting == WrapConnect(c)
    IN  IF connecting # NoFailure \/ c.op = "connect" THEN connecting
        ELSE IF c.op \in TransactionOps THEN TransactionFailure(c)
        ELSE IF c.cls = "SeekdbDatabase" THEN SeekdbStatementFailure(c)
        ELSE SqlStatementFailure(c)

WrapCalls ==
    {[op |-> op, cls |-> cls, connected |-> connected, fails |-> fails] :
        op \in DriverOps, cls \in DriverClasses, connected \in BOOLEAN,
        fails \in {"none", "open", "open_twice", "connect", "cursor", "execute",
                   "fetch", "cursor_close", "method"}}

DriverCall ==
    /\ call.op \in DriverOps
    /\ ret = Pending
    /\ LET f == DriverCallFailure(call)
       IN  /\ err' = f.type
           /\ ret' = IF f = NoFailure THEN ReturnedNone
                     ELSE [kind |-> "raised", cause |-> f.cause]
    /\ UNCHANGED <<driver, embedder, conn, exists, schema, working, committed, call, log>>
    /\ UNCHANGED others

InitWrap ==
    /\ driver = "sql"
    /\ embedder = "none"
    /\ conn = FALSE
    /\ exists = FALSE
    /\ schema = 0
    /\ working = EmptyTable
    /\ committed = EmptyTable
    /\ call \in {c \in WrapCalls :
                    c.fails \in {"none"} \cup StepsOf(c.cls, c.op, c.connected)}
    /\ err = NoError
    /\ ret = Pending
    /\ log = <<>>
    /\ OthersIdle

NextWrap == DriverCall

SpecWrap == InitWrap /\ [][NextWrap]_vars

\* the errors of the SDK's taxonomy that stand for an engine failure
TypedEngineErrors ==
    {"DatabaseConnectionError", "QueryError", "DatabaseError.connection_failed",
     "DatabaseError.execution_failed", "DatabaseError.fetch_failed",
     "DatabaseError.transaction_failed"}

WrapDone == call.op \in DriverOps /\ "fails" \in DOMAIN call /\ ret # Pending

\* C21: every failure of the engine during connect, execute, fetch_all,
\* fetch_one, begin, commit or rollback reaches the caller as one typed SDK
\* error whose cause is the engine's failure: none is swallowed and none
\* escapes untyped.
C21_EngineFailureWrapped ==
    (WrapDone /\ call.fails # "none") =>
        /\ err \in TypedEngineErrors
        /\ ret = [kind |-> "raised", cause |-> EngineFailure(call.cls)]

(***************************************************************************)
(* The life of a collection: it is created, filled and dropped in any      *)
(* order, under names that pass validation and names that do not, with     *)
(* dimensions that differ from call to call.  The engine refuses no        *)
(* statement that it can run.                                              *)
(***************************************************************************)
LifecycleDimensions == {0, 3, 4}

LifecycleCreate ==
    \E name \in CollectionNames, dimension \in LifecycleDimensions :
        Finish(create_collection(World, name, dimension, 0),
               [op |-> "create_collection", collection |-> name,
                dimension |-> dimension], ReturnedNone)

LifecycleDelete ==
    \E name \in CollectionNames :
        Finish(delete_collection(World, name, 0),
               [op |-> "delete_collection", collection |-> name], ReturnedNone)

LifecycleUpsert ==
    \E c \in UpsertBatches :
        Finish(upsert(World, c.collection, c.ids, c.vectors, c.metadatas, 0),
               c, ReturnedNone)

NextLifecycle == LifecycleCreate \/ LifecycleDelete \/ LifecycleUpsert

SpecLifecycle == Init /\ [][NextLifecycle]_vars

\* C22: delete_collection under a valid name does not fail and leaves the
\* collection absent, and a second delete_collection in a row leaves the
\* store as the first one left it; create_collection on an existing
\* collection does not fail, keeps its rows (those of the connection's view)
\* and keeps the dimension of the first creation.
C22_LifecycleIdempotent ==
    [][/\ (call'.op = "delete_collection" /\ is_identifier(call'.collection)) =>
            /\ err' = NoError
            /\ ~exists'
            /\ schema' = 0
       /\ (/\ call.op = "delete_collection"
           /\ err = NoError
           /\ call'.op = "delete_collection"
           /\ call'.collection = call.collection) =>
            /\ err' = NoError
            /\ <<exists', schema', working', committed'>>
                  = <<exists, schema, working, committed>>
       /\ (/\ call'.op = "create_collection"
           /\ is_identifier(call'.collection)
           /\ call'.dimension > 0
           /\ exists) =>
            /\ err' = NoError
            /\ exists'
            /\ schema' = schema
            /\ working' = working]_vars

\* create_collection(docs, 4) has returned on a collection of dimension 3
\* that holds a row
C22_Witness ==
    /\ call.op = "create_collection"
    /\ call.dimension = 4
    /\ err = NoError
    /\ exists
    /\ schema = 3
    /\ \E i \in Ids : working[i].present /\ committed[i].present

(***************************************************************************)
(* Searching a collection that holds rows: the contents and the arguments  *)
(* are drawn at the start, search runs once, and the engine answers the    *)
(* SELECT statement it receives.                                           *)
(***************************************************************************)
EngineVectors == {<<1, 0, 0>>, <<0, 1, 0>>, <<0, 0, 1>>}

\* the vector a literal denotes
ParseVector(text) == CHOOSE v \in EngineVectors : _vector_literal(v) = text

Dot(u, v) == u[1] * v[1] + u[2] * v[2] + u[3] * v[3]

\* the engine's distance functions on unit vectors, l2_distance as its square
EngineDistance(func, u, v) ==
    CASE func = L2Distance -> Dot(u, u) - 2 * Dot(u, v) + Dot(v, v)
      [] func = CosineDistance -> 1 - Dot(u, v)
      [] OTHER -> Dot(u, v)

\* the value bound to a placeholder
BoundTo(stmt, name) ==
    stmt.params[CHOOSE i \in 1..Len(stmt.params) : stmt.params[i][1] = name][2]

\* the expression a statement orders by: the alias _distance stands for the
\* select item of that name
OrderExpression(stmt) ==
    LET aliased == {f \in DistanceFunctionNames :
                       \E i \in 1..Len(stmt.select) :
                          stmt.select[i] = DistanceExpr(f) \o <<" AS _distance">>}
    IN  IF stmt.order_by = <<"_distance">> /\ aliased # {}
        THEN DistanceExpr(CHOOSE f \in aliased : TRUE)
        ELSE stmt.order_by

\* the distance of the row of an id from the statement's :query
RowDistance(W, stmt, i) ==
    EngineDistance(CHOOSE f \in DistanceFunctionNames : OrderExpression(stmt) = DistanceExpr(f),
                   ParseVector(W.working[i].embedding),
                   ParseVector(BoundTo(stmt, <<"query">>).v))

\* row i comes no later than row j in the statement's order
Precedes(W, stmt, i, j) ==
    IF stmt.direction = "ASC" THEN RowDistance(W, stmt, i) <= RowDistance(W, stmt, j)
    ELSE RowDistance(W, stmt, i) >= RowDistance(W, stmt, j)

\* the ids the engine may return: the rows that match (all of them without a
\* WHERE clause, any of them with one), in the statement's order, cut at LIMIT
EngineResults(W, stmt) ==
    LET present == {i \in Ids : W.working[i].present}
        matching == IF stmt.where = <<>> THEN {present} ELSE SUBSET present
        limit == BoundTo(stmt, <<"top_k">>).v
    IN  UNION {{rows \in UNION {[1..n -> S] : n \in 0..Cardinality(S)} :
                  /\ \A p, q \in 1..Len(rows) : p # q => rows[p] # rows[q]
                  /\ Len(rows) = IF limit < Cardinality(S) THEN limit ELSE Cardinality(S)
                  /\ \A p, q \in 1..Len(rows) : p < q => Precedes(W, stmt, rows[p], rows[q])
                  /\ \A p \in 1..Len(rows) :
                        \A j \in S \ {rows[q] : q \in 1..Len(rows)} :
                           Precedes(W, stmt, rows[p], j)} : S \in matching}

NearestTables ==
    {[i \in Ids |-> IF i \in S
                    THEN Row(_vector_literal(IF i = <<"a">> THEN <<1, 0, 0>> ELSE <<0, 1, 0>>),
                             SqlNull)
                    ELSE NoRow] : S \in SUBSET Ids}

NearestCalls ==
    {SearchCall(Docs, [t |-> "vector", v |-> q], k, d, w, f, incd, incm) :
        q \in {<<1, 0, 0>>, <<0, 1, 0>>}, k \in 0..MaxTopK,
        d \in {PyStr(L2), PyStr(Cosine), PyStr(L2Distance), PyStr(InnerProduct)},
        w \in {PyNone, PyDict(<<<<PyStr(F_id), PyStr(<<"a">>)>>>>),
               PyDict(<<<<PyStr(Lang), PyStr(En)>>>>)},
        f \in {PyNone, PyList(<<F_id>>)}, incd \in BOOLEAN, incm \in BOOLEAN}

SearchNearest ==
    /\ call.op = "search"
    /\ ret = Pending
    /\ \E rejected \in BOOLEAN :
          LET r == search(World, call, <<>>, rejected)
          IN  IF r.W.err = NoError /\ r.ret = FetchedRows(r.ret.stmt)
                 /\ r.ret.stmt # <<>>
              THEN \E rows \in EngineResults(World, r.ret.stmt) :
                      Finish(r.W, call, [kind |-> "rows", from |-> "driver",
                                         stmt |-> r.ret.stmt, rows |-> rows])
              ELSE Finish(r.W, call, r.ret)

InitNearest ==
    /\ driver = "sql"
    /\ embedder = "none"
    /\ conn = FALSE
    /\ exists = TRUE
    /\ schema = 3
    /\ working \in NearestTables
    /\ committed = working
    /\ call \in NearestCalls
    /\ err = NoError
    /\ ret = Pending
    /\ log = <<>>
    /\ OthersIdle

NextNearest == SearchNearest

SpecNearest == InitNearest /\ [][NextNearest]_vars

\* the distance function a distance argument stands for
ExpectedFunction(distance) ==
    CASE distance.v \in {L2, L2Distance} -> L2Distance
      [] distance.v \in {Cosine, CosineDistance} -> CosineDistance
      [] OTHER -> InnerProduct

\* the distance of the row of an id from the query of the call
ExpectedDistance(i) ==
    EngineDistance(ExpectedFunction(call.distance), ParseVector(working[i].embedding),
                   call.query.v)

\* C23: for top_k > 0 the statement search issues orders ascending by the
\* resolved distance function applied to (embedding, :query), with the query
\* vector bound as :query, and limits by :top_k bound to top_k; the rows
\* returned are at most top_k, nearest first.  On a collection holding
\* a=[1,0,0] and b=[0,1,0], searching [1,0,0] with top_k=1 and distance l2
\* returns the row a.
C23_NearestFirst ==
    (SearchDone /\ call.top_k > 0) =>
        /\ \A stmt \in Fetched :
              /\ OrderExpression(stmt) = DistanceExpr(ExpectedFunction(call.distance))
              /\ stmt.direction = "ASC"
              /\ stmt.limit = <<":top_k">>
              /\ BoundTo(stmt, <<"top_k">>) = PyInt(call.top_k)
              /\ BoundTo(stmt, <<"query">>) = PyStr(_vector_literal(call.query.v))
        /\ err = NoError =>
              /\ Fetched # {}
              /\ Len(ret.rows) <= call.top_k
              /\ \A p, q \in 1..Len(ret.rows) :
                    p < q => ExpectedDistance(ret.rows[p]) <= ExpectedDistance(ret.rows[q])
              /\ (call.where = PyNone /\ ret.rows # <<>>) =>
                    \A i \in Ids : working[i].present =>
                       ExpectedDistance(ret.rows[1]) <= ExpectedDistance(i)
              /\ (/\ call.where = PyNone
                  /\ \A i \in Ids : working[i].present
                  /\ call.query.v = <<1, 0, 0>>
                  /\ call.top_k = 1
                  /\ call.distance = PyStr(L2)) => ret.rows = <<<<"a">>>>

\* search([1,0,0], top_k=1, distance="l2") on a and b has returned the row a
C23_Witness ==
    /\ SearchDone
    /\ err = NoError
    /\ call.where = PyNone
    /\ \A i \in Ids : working[i].present
    /\ call.query.v = <<1, 0, 0>>
    /\ call.top_k = 1
    /\ call.distance = PyStr(L2)
    /\ ret.kind = "rows"
    /\ ret.rows = <<<<"a">>>>

(***************************************************************************)
(* The placeholders of the SELECT statement and the mapping bound to it.   *)
(***************************************************************************)
\* the text of the statement that holds its placeholders, piece after piece
StmtText(stmt) ==
    Join(stmt.select, <<", ">>) \o <<" FROM ">> \o stmt.table \o <<" WHERE ">>
    \o Join(stmt.where, <<" AND ">>) \o <<" ORDER BY ">> \o stmt.order_by
    \o <<" ">> \o <<stmt.direction>> \o <<" LIMIT ">> \o stmt.limit

\* the placeholder that starts at piece i of a text, or <<>>: a piece that
\* ends in a colon opens a name that runs over the characters after it
PlaceholderAt(text, i) ==
    CASE text[i] = "(embedding, :query)" -> <<"query">>
      [] text[i] = ":top_k" -> <<"top_k">>
      [] text[i] \in {"id = :", "JSON_EXTRACT(metadata, :", ") = CAST(:"} ->
            SubSeq(text, i + 1, NameEnd(text, i))
      [] OTHER -> <<>>

Placeholders(text) == {PlaceholderAt(text, i) : i \in 1..Len(text)} \ {<<>>}

\* the entries of a parameter list under a name
EntriesNamed(params, name) == {j \in 1..Len(params) : params[j][1] = name}

\* C24: in every statement search issues, each placeholder of the text
\* (query, top_k, w<i>, p<i>) has exactly one entry in the bound mapping and
\* each entry is referenced by the text; the names generated for the where
\* entries are pairwise distinct and are neither query nor top_k, so query
\* and top_k stay bound to the query vector and the limit.
C24_BindingComplete ==
    SearchDone =>
        \A stmt \in Fetched :
            /\ \A name \in Placeholders(StmtText(stmt)) :
                  Cardinality(EntriesNamed(stmt.params, name)) = 1
            /\ \A j \in 1..Len(stmt.params) :
                  stmt.params[j][1] \in Placeholders(StmtText(stmt))
            /\ {<<"query">>, <<"top_k">>} \subseteq Placeholders(StmtText(stmt))
            /\ \A j \in 3..Len(stmt.params) :
                  /\ stmt.params[j][1] \notin {<<"query">>, <<"top_k">>}
                  /\ stmt.params[j][1][1] \in {"w", "p"}
                  /\ \A k \in 3..Len(stmt.params) :
                        j # k => stmt.params[j][1] # stmt.params[k][1]
            /\ BoundTo(stmt, <<"top_k">>) = PyInt(call.top_k)
            /\ call.query.t = "vector" =>
                  BoundTo(stmt, <<"query">>) = PyStr(_vector_literal(call.query.v))

\* a search with a where mapping of two entries, a metadata key among them,
\* has sent its statement
C24_Witness ==
    /\ SearchDone
    /\ call.where.t = "dict"
    /\ Len(call.where.v) = 2
    /\ \E stmt \in Fetched :
          /\ Len(stmt.where) = 2
          /\ Len(stmt.params) >= 5

(***************************************************************************)
(* The validators of identifiers.py on values of any type: the value is    *)
(* drawn at the start and one validator runs once on it.                   *)
(***************************************************************************)
PyBytes(s) == [t |-> "bytes", v |-> s]

\* is_identifier(value) on any value: [err, result].  The compiled pattern
\* is a str pattern: match() raises TypeError for a value that is not a str
\* (for bytes too).
is_identifier_call(value) ==
    IF value.t # "str" THEN [err |-> "TypeError", result |-> FALSE]
    ELSE [err |-> NoError, result |-> is_identifier(value.v)]

\* validate_identifier(value) on any value: the error it raises, or NoError
validate_identifier_call(value) ==
    IF is_identifier_call(value).err # NoError THEN is_identifier_call(value).err
    ELSE IF ~is_identifier_call(value).result THEN "InvalidIdentifier"
    ELSE NoError

Validators == {"is_identifier", "validate_identifier", "validate_index_option",
               "validate_index_property_name", "validate_index_property_value"}

\* strings that are identifiers and strings that are not, and values of the
\* other types
ValidatorInputs ==
    {PyStr(<<"a">>), PyStr(<<"A">>), PyStr(<<"1">>), PyStr(<<>>),
     PyStr(<<"a", "\n">>), PyStr(<<"a", "-">>), PyBytes(<<"a">>), PyInt(5), PyInt(0),
     PyFloat(2), PyBool(TRUE), PyNone, PyList(<<>>), PyObject}

Validate ==
    /\ call.op \in Validators
    /\ ret = Pending
    /\ LET e == CASE call.op = "is_identifier" -> is_identifier_call(call.value).err
                  [] call.op = "validate_identifier" -> validate_identifier_call(call.value)
                  [] call.op = "validate_index_option" -> validate_index_option(call.value)
                  [] call.op = "validate_index_property_name" ->
                        validate_index_property_name(call.value)
                  [] OTHER -> validate_index_property_value(call.value)
       IN  /\ err' = e
           /\ ret' = IF e # NoError THEN Raised
                     ELSE IF call.op = "is_identifier"
                     THEN [kind |-> "bool", v |-> is_identifier_call(call.value).result]
                     ELSE ReturnedNone
    /\ UNCHANGED <<driver, embedder, conn, exists, schema, working, committed, call, log>>
    /\ UNCHANGED others

InitValidate ==
    /\ driver = "sql"
    /\ embedder = "none"
    /\ conn = FALSE
    /\ exists = FALSE
    /\ schema = 0
    /\ working = EmptyTable
    /\ committed = EmptyTable
    /\ call \in {[op |-> op, value |-> v] : op \in Validators, v \in ValidatorInputs}
    /\ err = NoError
    /\ ret = Pending
    /\ log = <<>>
    /\ OthersIdle

NextValidate == Validate

SpecValidate == InitValidate /\ [][NextValidate]_vars

ValidatorDone == call.op \in Validators /\ ret # Pending

\* C25: is_identifier, validate_identifier, validate_index_option and
\* validate_index_property_value are total: on a value of any type each
\* returns or raises the typed validation error, never another exception,
\* and changes no state.
C25_ValidatorsTotal ==
    (ValidatorDone /\ call.op # "validate_index_property_name") =>
        /\ err \in {NoError, "InvalidIdentifier", "InvalidIndexOption",
                    "InvalidIndexPropertyValue"}
        /\ log = <<>>
        /\ OthersIdle

(***************************************************************************)
(* The literals the embedded-engine driver writes into a statement: the    *)
(* text has the placeholders :a and :b, the values bound to them are drawn *)
(* at the start and the statement is rendered and sent once.               *)
(***************************************************************************)
LiteralTexts ==
    {<<":", "a">>, <<":", "a", " ", ":", "b">>, <<":", "b", " ", ":", "a">>}

\* values of every type the driver distinguishes; strings with a quote, with
\* a backslash, with the text of a placeholder; bytes with a quote and with a
\* byte that is not UTF-8; floats that are not finite
LiteralValues ==
    {PyNone, PyBool(TRUE), PyBool(FALSE), PyInt(7), PyInt(-1), PyFloat(2),
     PyFloatNamed(<<"i", "n", "f">>), PyFloatNamed(<<"n", "a", "n">>),
     PyStr(<<>>), PyStr(<<"o", "k">>), PyStr(<<"o", "'", "k">>), PyStr(<<"'">>),
     PyStr(<<"a", "\\">>), PyStr(<<":", "b">>),
     PyBytes(<<"o", "'", "k">>), PyBytes(<<"\\xff">>)}

LiteralCalls ==
    {[op |-> op, sql |-> s,
      params |-> PyDict(<<<<PyStr(<<"a">>), a>>, <<PyStr(<<"b">>), b>>>>)] :
        op \in {"execute", "fetch_all", "fetch_one"}, s \in LiteralTexts,
        a \in LiteralValues, b \in {PyInt(7), PyStr(<<"o", "'", "k">>)}}

InitLiteral ==
    /\ driver = "seekdb"
    /\ embedder = "none"
    /\ conn = TRUE
    /\ exists = FALSE
    /\ schema = 0
    /\ working = EmptyTable
    /\ committed = EmptyTable
    /\ call \in LiteralCalls
    /\ err = NoError
    /\ ret = Pending
    /\ log = <<>>
    /\ OthersIdle

SpecLiteral == InitLiteral /\ [][NextSeekdbSql]_vars

\* a decimal number: an optional sign, digits, and optionally a point and digits
IsNumberText(text) ==
    LET body == IF text # <<>> /\ text[1] = "-" THEN Tail(text) ELSE text
        points == {i \in 1..Len(body) : body[i] = "."}
    IN  /\ body # <<>>
        /\ \A i \in 1..Len(body) : body[i] \in Digit \cup {"."}
        /\ Cardinality(points) <= 1
        /\ \A i \in points : 1 < i /\ i < Len(body)

\* Where a string literal ends when read from position i, inside the quotes:
\* at the first quote that is not the first of a pair; a backslash takes the
\* character after it with it, as the engine reads string literals.  0 when
\* the literal does not end.
RECURSIVE QuotedEnd(_, _)
QuotedEnd(text, i) ==
    IF i > Len(text) THEN 0
    ELSE IF text[i] = "\\" THEN QuotedEnd(text, i + 2)
    ELSE IF text[i] = "'" /\ i < Len(text) /\ text[i + 1] = "'" THEN QuotedEnd(text, i + 2)
    ELSE IF text[i] = "'" THEN i
    ELSE QuotedEnd(text, i + 1)

\* the text is one string literal, no more and no less
IsStringLiteral(text) ==
    Len(text) >= 2 /\ text[1] = "'" /\ QuotedEnd(text, 2) = Len(text)

\* the text is one complete SQL literal
IsLiteral(text) == text = SqlNull \/ IsNumberText(text) \/ IsStringLiteral(text)

\* the characters of a value that is a string, or of the text of bytes
TextOf(value) == IF value.t = "bytes" THEN DecodeBytes(value.v) ELSE value.v

\* the text between the quotes has every quote of the value doubled
QuotesDoubled(text, value) ==
    /\ Len(text) >= 2
    /\ text[1] = "'"
    /\ text[Len(text)] = "'"
    /\ LET inner == SubSeq(text, 2, Len(text) - 1)
           quotesBefore(k) == Cardinality({m \in 1..k : TextOf(value)[m] = "'"})
       IN  /\ Len(inner) = Len(TextOf(value)) + quotesBefore(Len(TextOf(value)))
           /\ \A k \in 1..Len(TextOf(value)) :
                 /\ inner[k + quotesBefore(k)] = TextOf(value)[k]
                 /\ TextOf(value)[k] = "'" => inner[k + quotesBefore(k) - 1] = "'"

\* the literal written for a value is of the form its type calls for
LiteralForm(text, value) ==
    CASE value.t = "none" -> text = SqlNull
      [] value.t = "bool" -> text = (IF value.v THEN <<"1">> ELSE <<"0">>)
      [] value.t \in {"int", "float"} -> IsNumberText(text)
      [] OTHER -> QuotesDoubled(text, value)

LiteralValue(name) == DictGet(call.params.v, PyStr(<<name>>))

\* the text sent for the call: the literals of the bound values in the
\* places of their placeholders, written once and not read again
LiteralExpected ==
    CASE call.sql = <<":", "a">> -> _sql_literal(LiteralValue("a"))
      [] call.sql = <<":", "a", " ", ":", "b">> ->
            _sql_literal(LiteralValue("a")) \o <<" ">> \o _sql_literal(LiteralValue("b"))
      [] OTHER ->
            _sql_literal(LiteralValue("b")) \o <<" ">> \o _sql_literal(LiteralValue("a"))

\* C26: the text substituted for a placeholder is one complete SQL literal:
\* NULL for None, 1/0 for booleans, the decimal text of integers and floats,
\* for strings and decoded bytes a quoted literal with every quote doubled;
\* no string value ends its literal early, and the text of a placeholder
\* inside a substituted value is not substituted.
C26_CompleteLiterals ==
    (SeekdbDone /\ call \in LiteralCalls) =>
        /\ err \in {NoError, "ExecutionFailed", "FetchFailed"}
        /\ Len(log) = 1
        /\ log[1].sql = LiteralExpected
        /\ \A name \in {"a", "b"} :
              /\ LiteralForm(_sql_literal(LiteralValue(name)), LiteralValue(name))
              /\ IsLiteral(_sql_literal(LiteralValue(name)))

(***************************************************************************)
(* Two searches in a row through one store: the first call is drawn at the *)
(* start, the second is any call of ShapeCalls.  The log keeps the         *)
(* statements of both calls.                                               *)
(***************************************************************************)
Fr == <<"f", "r">>
Items == <<"i", "t", "e", "m", "s">>
OtherVector == [t |-> "vector", v |-> <<0, 1, 0>>]

ShapeKeys == {PyStr(F_id), PyStr(Lang), PyStr(LangCode)}
ShapeValues == {PyNone, PyStr(En), PyStr(Fr)}
ShapeWheres ==
    {PyNone} \cup
    {PyDict(e) : e \in UNION {{f \in [1..n -> ShapeKeys \X ShapeValues] :
                                 \A i, j \in 1..n : i # j => f[i][1] # f[j][1]} :
                              n \in 0..MaxWhere}}

\* the second call: the data varies over all its values, and so does the
\* where mapping; the other arguments vary for one where mapping
ShapeCalls ==
    {SearchCall(Docs, q, k, PyStr(L2), w, PyNone, incd, TRUE) :
        q \in {QueryVector, OtherVector}, k \in 1..(MaxTopK + 1), w \in ShapeWheres,
        incd \in BOOLEAN}
    \cup
    {SearchCall(c, OtherVector, 1, d, PyDict(<<<<PyStr(LangCode), PyStr(Fr)>>>>), f,
                TRUE, incm) :
        c \in {Docs, Items}, d \in {PyStr(L2), PyStr(Cosine), PyStr(L2Distance)},
        f \in {PyNone, PyList(<<Lang>>)}, incm \in BOOLEAN}

\* the first call: one of each shape of where mapping
FirstWheres ==
    {PyNone,
     PyDict(<<<<PyStr(F_id), PyStr(En)>>>>),
     PyDict(<<<<PyStr(Lang), PyStr(En)>>>>),
     PyDict(<<<<PyStr(Lang), PyNone>>>>),
     PyDict(<<<<PyStr(F_id), PyStr(En)>>, <<PyStr(Lang), PyStr(En)>>>>),
     PyDict(<<<<PyStr(Lang), PyNone>>, <<PyStr(F_id), PyStr(En)>>>>),
     PyDict(<<<<PyStr(Lang), PyStr(En)>>, <<PyStr(LangCode), PyNone>>>>)}

FirstCalls ==
    {SearchCall(Docs, QueryVector, 1, PyStr(L2), w, PyNone, incd, TRUE) :
        w \in FirstWheres, incd \in BOOLEAN}

\* a second search after the first has returned
SearchAgain ==
    /\ call.op = "search"
    /\ ret # Pending
    /\ Len(log) <= 1
    /\ \E c \in ShapeCalls, rejected \in BOOLEAN :
          LET r == search([World EXCEPT !.log = log], c, <<>>, rejected)
          IN  Finish(r.W, c, r.ret)

InitShape ==
    /\ driver = "sql"
    /\ embedder = "none"
    /\ conn = FALSE
    /\ exists = TRUE
    /\ schema = 3
    /\ working = EmptyTable
    /\ committed = EmptyTable
    /\ call \in FirstCalls
    /\ err = NoError
    /\ ret = Pending
    /\ log = <<>>
    /\ OthersIdle

NextShape == Search \/ SearchAgain

SpecShape == InitShape /\ [][NextShape]_vars

\* the entries of a call's where mapping, none for None
WhereOf(c) == IF c.where.t = "none" THEN <<>> ELSE c.where.v

\* two calls agree on everything but the filter's keys and values, the
\* query vector and top_k
SameShape(c1, c2) ==
    /\ c1.collection = c2.collection
    /\ c1.distance = c2.distance
    /\ c1.return_fields = c2.return_fields
    /\ c1.include_distance = c2.include_distance
    /\ c1.include_metadata = c2.include_metadata
    /\ Len(WhereOf(c1)) = Len(WhereOf(c2))
    /\ \A i \in 1..Len(WhereOf(c1)) :
          /\ (WhereOf(c1)[i][1] = PyStr(F_id)) <=> (WhereOf(c2)[i][1] = PyStr(F_id))
          /\ (WhereOf(c1)[i][2].t = "none") <=> (WhereOf(c2)[i][2].t = "none")

\* the statement of a call that reached the driver, in the call's result or
\* behind the driver's error
SentBy(l) == l[Len(l)].stmt

\* the data of call c is bound to statement stmt: the query vector, top_k,
\* the id values as they are, the metadata keys as JSON paths and the
\* metadata values as JSON text
BoundData(c, stmt) ==
    /\ BoundTo(stmt, <<"query">>) = PyStr(_vector_literal(c.query.v))
    /\ BoundTo(stmt, <<"top_k">>) = PyInt(c.top_k)
    /\ \A i \in 1..Len(WhereOf(c)) :
          LET key == WhereOf(c)[i][1]
              value == WhereOf(c)[i][2]
          IN  IF key = PyStr(F_id)
              THEN BoundTo(stmt, <<"w">> \o IntText(i - 1)) = value
              ELSE /\ BoundTo(stmt, <<"p">> \o IntText(i - 1))
                         = PyStr(<<"$", ".">> \o JsonText(key))
                   /\ value.t # "none" =>
                         BoundTo(stmt, <<"w">> \o IntText(i - 1)) = PyStr(JsonText(value))

\* C27: when two searches agree on collection, distance, return_fields,
\* include_distance, include_metadata and on the shape of the where mapping
\* (how many entries, which positions hold the key id, which values are
\* None), the SQL text handed to the driver is the same for both, whatever
\* the metadata keys, the filter values, the query vector and top_k are;
\* those are found in the bound parameters only (metadata keys as the JSON
\* path parameter p<i>).
C27_TextIndependentOfData ==
    [][(/\ call.op = "search" /\ ret # Pending /\ Len(log) = 1
        /\ call'.op = "search" /\ Len(log') = 2
        /\ SameShape(call, call'))
       => /\ StmtText(SentBy(log')) = StmtText(SentBy(log))
          /\ BoundData(call, SentBy(log))
          /\ BoundData(call', SentBy(log'))]_vars

\* two searches of one shape have sent their statements, with different
\* metadata keys, filter values, query vectors and top_k
C27_Witness ==
    /\ call.op = "search"
    /\ Len(log) = 2
    /\ Len(log[2].stmt.where) = 2
    /\ log[1].stmt.table = log[2].stmt.table
    /\ StmtText(log[1].stmt) = StmtText(log[2].stmt)
    /\ \A j \in 1..5 : log[1].stmt.params[j][2] # log[2].stmt.params[j][2]

(***************************************************************************)
(* The transaction handle and the connection of the generic SQL driver.    *)
(***************************************************************************)
\* C28: in every state reached by connect, close, begin, commit, rollback
\* and the statement calls, a transaction handle the driver holds belongs to
\* the connection it holds: no handle without a connection and no handle
\* that a closed connection left behind: close() leaves the driver without
\* a handle.
C28_HandleOfHeldConnection ==
    [][/\ sqldb'._tx # "none" => sqldb'._conn
       /\ call'.op = "close" => sqldb'._tx = "none"]_vars

(***************************************************************************)
(* Upserts one after another into an existing collection: ids repeat       *)
(* within a batch and across batches, with different vectors and metadata. *)
(* The engine refuses nothing.                                             *)
(***************************************************************************)
MetaOther == PyDict(<<<<PyStr(<<"k">>), PyStr(Fr)>>>>)

\* vectors for a batch of n rows: two different vectors alternating,
\* starting with either
ReplaceVectors(n) ==
    {[p \in 1..n |-> IF p % 2 = 1 THEN <<1, 0, 0>> ELSE <<0, 1, 0>>],
     [p \in 1..n |-> IF p % 2 = 1 THEN <<0, 1, 0>> ELSE <<1, 0, 0>>]}

\* metadatas for a batch of n rows: omitted, or two different entries
\* alternating, starting with either
ReplaceMetadatas(n) ==
    {PyNone,
     PyList([p \in 1..n |-> IF p % 2 = 1 THEN MetaGood ELSE MetaOther]),
     PyList([p \in 1..n |-> IF p % 2 = 1 THEN MetaOther ELSE MetaGood])}

ReplaceCalls ==
    UNION {{[op |-> "upsert", collection |-> Docs, ids |-> ids, vectors |-> v,
             metadatas |-> m] :
               ids \in [1..n -> Ids], v \in ReplaceVectors(n),
               m \in ReplaceMetadatas(n)} : n \in 0..MaxBatch}

ReplaceUpsert ==
    \E c \in ReplaceCalls :
        Finish(upsert(World, c.collection, c.ids, c.vectors, c.metadatas, 0),
               c, ReturnedNone)

InitReplace ==
    /\ driver \in {"sql", "seekdb"}
    /\ embedder = "none"
    /\ conn = FALSE
    /\ exists = TRUE
    /\ schema = 3
    /\ working = EmptyTable
    /\ committed = EmptyTable
    /\ call = [op |-> "init"]
    /\ err = NoError
    /\ ret = ReturnedNone
    /\ log = <<>>
    /\ OthersIdle

NextReplace == ReplaceUpsert

SpecReplace == InitReplace /\ [][NextReplace]_vars

\* the last position of a batch that holds the id
LastPosition(ids, id) ==
    CHOOSE p \in 1..Len(ids) : ids[p] = id /\ \A q \in (p + 1)..Len(ids) : ids[q] # id

\* the row an upsert call leaves under an id of its batch
LastWritten(c, id) ==
    Row(_vector_literal(c.vectors[LastPosition(c.ids, id)]),
        IF c.metadatas.t = "none" THEN SqlNull
        ELSE JsonText(c.metadatas.v[LastPosition(c.ids, id)]))

\* C29: an upsert that returns replaces whole rows by id: each id of the
\* batch has one row, with the embedding and the metadata of the last
\* position that names it (NULL metadata when metadatas is omitted, whatever
\* the row held before), the rows of the other ids stay as they were, and
\* the rows are committed.
C29_LastWriteWins ==
    [][(call'.op = "upsert" /\ err' = NoError)
       => /\ DOMAIN working' = Ids
          /\ \A id \in Ids :
                working'[id] = IF \E p \in 1..Len(call'.ids) : call'.ids[p] = id
                               THEN LastWritten(call', id)
                               ELSE working[id]
          /\ committed' = working']_vars

\* an upsert without metadatas has replaced a row that held metadata, with
\* the id twice in the batch and two different vectors
C29_Witness ==
    /\ call.op = "upsert"
    /\ err = NoError
    /\ call.ids = <<<<"a">>, <<"a">>>>
    /\ call.vectors = <<<<1, 0, 0>>, <<0, 1, 0>>>>
    /\ call.metadatas = PyNone
    /\ working[<<"a">>] = Row(_vector_literal(<<0, 1, 0>>), SqlNull)
    /\ working[<<"b">>].present
    /\ working[<<"b">>].metadata = JsonText(MetaOther)

(***************************************************************************)
(* ensure_defaults (registry.py, _defaults.py) among registrations and     *)
(* lookups under the default names.                                        *)
(***************************************************************************)
DEFAULT_DB_DRIVER == Sql
DEFAULT_VECTOR_STORE == Sql
DEFAULT_EMBEDDER == Llm

\* register_defaults(): the three built-in factories under the default names
register_defaults(R) ==
    LET R1 == register(R, "db_driver", DEFAULT_DB_DRIVER, "_create_sql_database").R
        R2 == register(R1, "vector_store", DEFAULT_VECTOR_STORE, "SQLVectorStore").R
    IN  register(R2, "embedder", DEFAULT_EMBEDDER, "LLMEmbedder").R

\* ensure_defaults()
ensure_defaults(R) ==
    IF R._defaults_loaded THEN RegistryResult(R, NothingRaised, NoFactory)
    ELSE RegistryResult([register_defaults(R) EXCEPT !._defaults_loaded = TRUE],
                        NothingRaised, NoFactory)

DefaultNames == {Sql, Llm}

EnsureDefaults ==
    RegistryFinish([op |-> "ensure_defaults"], ensure_defaults(registry))

\* a user's registration under a default name
RegisterDefaultName ==
    \E kind \in Kinds, name \in DefaultNames :
        LET r == register(registry, kind, name, "factory_f")
        IN  /\ TotalEntries(r.R) <= MaxEntries + 3
            /\ RegistryFinish([op |-> "register", kind |-> kind, name |-> name,
                               factory |-> "factory_f"], r)

GetDefaultName ==
    \E kind \in Kinds, name \in DefaultNames :
        RegistryFinish([op |-> "get", kind |-> kind, name |-> name],
                       get(registry, kind, name))

NextDefaults == EnsureDefaults \/ RegisterDefaultName \/ GetDefaultName

SpecDefaults == InitRegistry /\ [][NextDefaults]_vars

\* C30: ensure_defaults loads the built-in factories at most once and never
\* replaces a user's registration: a call after the first leaves the three
\* dicts as they are, and a factory registered under a default name before
\* a call of ensure_defaults is the one the lookup returns after it.
C30_DefaultsKeepRegistrations ==
    [][call'.op = "ensure_defaults"
       => /\ err' = NoError
          /\ registry._defaults_loaded => registry' = registry
          /\ \A kind \in Kinds, name \in DefaultNames :
                name \in DictKeys(Factories(registry, kind))
                   => get(registry', kind, name).value = get(registry, kind, name).value]_vars

====
